---- MODULE Spec2Model ----
(***************************************************************************)
(* A model of affy2vcf.c: the multi-source genotype/intensity iterator     *)
(* (varitr_loop), the Calvin/AGCC container decoder (agcc_init) and the    *)
(* variant assembler (process).                                            *)
(*                                                                         *)
(* Strings are sequences of characters; a character is a one-character     *)
(* string and NUL is the terminating '\0' of a C string.  A call to        *)
(* error() ends the run: it sets `err` to the message and nothing runs     *)
(* afterwards.                                                             *)
(***************************************************************************)
EXTENDS Integers, Sequences, FiniteSets, TLC

VARIABLES
    varitr,     \* varitr_t: nsmpl, nrow, probe_set_id, gts
    data_sets,  \* varitr->data_sets[i]: n_rows, rows read from its stream, buffer
    txt,        \* calls_fp, confidences_fp, summary_fp: the lines and the position
    itr_ret,    \* value returned by the last varitr_loop call
    itr_at,     \* sample index at which the last varitr_loop call left its loop
    err,        \* message of the error() call that ended the run, or NoError
    have_varitr,\* process's varitr argument is not NULL
    annot,      \* annot->records of the manifest, annot->n_records its length
    proc,       \* process: its loop counter, its tallies, the locals of the last iteration
    sink,       \* what bcf_write handed to the output: the count and the last record
    printed,    \* the "Lines total/..." line printed when the loop is left
    fp,         \* hFILE of a container: the blocks of the file and the position
    agcc,       \* agcc_t under construction in agcc_init, and where agcc_init is
    xda_cel,    \* xda_cel_t as xda_cel_init leaves it, and the flags it is called with
    models_fn,  \* the SNP models file named by --models, until models_init has read it
    models,     \* models_t: is_birdseed, and per ploidy the name->index map and the snps
    flags       \* the flags of the run that process tests

itrvars == <<varitr, data_sets, txt, itr_ret, itr_at>>
procvars == <<have_varitr, annot, proc, sink, printed>>
agccvars == <<fp, agcc, xda_cel>>
mdlvars == <<models_fn, models, flags>>
vars == <<varitr, data_sets, txt, itr_ret, itr_at, err, have_varitr, annot, proc, sink, printed,
          fp, agcc, xda_cel, models_fn, models, flags>>

-----------------------------------------------------------------------------
\* Bounds of the model

\* number of samples: containers opened at once, or columns of a table
NSmpl == 2
\* records of the manifest
MaxRecords == 2
\* data lines of a summary table
MaxSumLines == 3
\* data lines of a calls or confidences table
MaxTblLines == 1
\* largest n_rows a data set declares
MaxRows == 2
\* varitr_loop calls issued beyond MaxRows (calls after the end was reported)
ExtraCalls == 2

-----------------------------------------------------------------------------
\* Program constants

GT_NC == -1
GT_AA == 0
GT_AB == 1
GT_BB == 2
MAX_LENGTH_PROBE_SET_ID == 17

NUL == "\\0"
NoError == "none"
\* itr_ret: no call yet, varitr_loop returned 0, returned -1, or called error()
RetNone == "none"
RetRow == "0"
RetEnd == "-1"
RetError == "error"

\* an array as malloc leaves it holds no defined element: it is a function
\* with an empty domain, and a write of element i adds i to the domain
Unwritten == [i \in {} |-> 0]
Store(arr, i, x) == [j \in (DOMAIN arr) \cup {i} |-> IF j = i THEN x ELSE arr[j]]

\* F applied to the value of x, x being evaluated once
Eval(x, F(_)) == CHOOSE r \in {F(y) : y \in {x}} : TRUE

-----------------------------------------------------------------------------
\* C strings

\* the C string held by a byte array: its bytes before the first NUL
RECURSIVE CStr(_)
CStr(s) ==
    IF s = <<>> \/ Head(s) = NUL THEN <<>> ELSE <<Head(s)>> \o CStr(Tail(s))

\* dest[k-1] of a NUL-terminated string
CharAt(str, k) == IF k <= Len(str) THEN str[k] ELSE NUL

\* strncmp(dest, src, n) == 0: the first n characters agree, or both strings
\* end (NUL) at the same place before that
StrncmpEqual(dest, src, n) ==
    \A k \in 1..n :
        (\A j \in 1..(k - 1) : CharAt(dest, j) = src[j] /\ src[j] # NUL)
            => CharAt(dest, k) = src[k]

\* strcmp(dest, src) == 0 on two C strings
StrcmpEqual(dest, src) == CStr(dest) = CStr(src)

\* check_n_probe_set_id(dest, src, n): the first identifier of a step becomes
\* the reference, a later one is compared with strncmp over its own n bytes
check_n_probe_set_id(dest, src, n) ==
    IF dest = <<>>
    THEN IF n > MAX_LENGTH_PROBE_SET_ID
         THEN [err |-> "Probe Set Name is too long", dest |-> dest]
         ELSE [err |-> NoError, dest |-> CStr(SubSeq(src, 1, n))]
    ELSE IF ~StrncmpEqual(dest, src, n)
         THEN [err |-> "Probe Set Name mismatch", dest |-> dest]
         ELSE [err |-> NoError, dest |-> dest]

-----------------------------------------------------------------------------
\* Binary mode of varitr_loop

\* static const int gt[16]
gt == <<-1, -1, -1, -1, -1, -1, GT_AA, GT_BB, GT_AB, -1, -1, GT_NC, -1, -1, -1, -1>>

\* gt[buffer[col_offsets[1]] & 0x0F]
DecodeCall(code) == gt[(code % 16) + 1]

\* what a read of one row finds in the stream: the row's fields, or (eof)
\* fewer bytes than n_buffer, and read_bytes then calls error()
Truncated == [name |-> <<>>, call |-> 0, eof |-> TRUE]

\* a wrong end test would let one row too many be requested
Exhausted_late(v, d) == v.nrow > d.n_rows + 1

\* varitr->nrow > data_set->n_rows: every row of the data set was requested
Exhausted(v, d) == v.nrow > d.n_rows

\* the body of the for loop over the samples, from sample i on; v is the
\* iterator, ds the data sets, rows[i] what read_bytes finds for sample i
RECURSIVE LoopCC(_, _, _, _)
LoopCC(v, ds, rows, i) ==
    IF i > v.nsmpl
    THEN [varitr |-> v, data_sets |-> ds, ret |-> RetRow, at |-> 0, err |-> NoError]
    ELSE IF Exhausted(v, ds[i])
    THEN [varitr |-> v, data_sets |-> ds, ret |-> RetEnd, at |-> i, err |-> NoError]
    ELSE IF rows[i].eof
    THEN [varitr |-> v, data_sets |-> ds, ret |-> RetError, at |-> i,
          err |-> "Failed to read bytes from stream"]
    ELSE LET ds1 == [ds EXCEPT ![i].read = @ + 1, ![i].buffer = <<[name |-> rows[i].name,
                                                    call |-> rows[i].call]>>]
             chk == check_n_probe_set_id(v.probe_set_id, rows[i].name,
                                         Len(rows[i].name))
         IN  IF chk.err # NoError
             THEN [varitr |-> v, data_sets |-> ds1, ret |-> RetError, at |-> i,
                   err |-> chk.err]
             ELSE Eval(<<[v EXCEPT !.probe_set_id = chk.dest,
                                   !.gts = Store(@, i, DecodeCall(rows[i].call))],
                         ds1>>,
                       LAMBDA x : LoopCC(x[1], x[2], rows, i + 1))

\* varitr_loop with varitr->data_sets set
varitr_loop_cc(v, ds, rows) ==
    LoopCC([v EXCEPT !.probe_set_id = <<>>, !.nrow = @ + 1], ds, rows, 1)


-----------------------------------------------------------------------------
\* Text mode of varitr_loop

\* a table that was not given: its htsFile pointer is NULL
NoFile == [open |-> FALSE, lines |-> <<>>, pos |-> 0]
NoTables == [calls |-> NoFile, confidences |-> NoFile, summary |-> NoFile]

\* the bytes of one line of a table: the identifier, then a tab and a value
\* for each further column, then the line separator
RECURSIVE Fields(_)
Fields(n) == IF n <= 0 THEN <<>> ELSE <<"\t", "1">> \o Fields(n - 1)
LineBytes(line) == line.id \o Fields(line.ncols - 1) \o <<"\n">>

\* the bytes of the stream that follow the lines read so far
RECURSIVE RestBytes(_, _)
RestBytes(lines, pos) ==
    IF pos >= Len(lines) THEN <<>>
    ELSE LineBytes(lines[pos + 1]) \o RestBytes(lines, pos + 1)

\* hpeek(fp, buf, n): the next n bytes, fewer at the end of the file
hpeek(f, n) ==
    LET rest == RestBytes(f.lines, f.pos)
    IN  SubSeq(rest, 1, IF n <= Len(rest) THEN n ELSE Len(rest))

\* hts_getline(fp, ...) < 0: no line is left
AtEof(f) == f.pos >= Len(f.lines)
NextLine(f) == f.lines[f.pos + 1]
Advance(f) == [f EXCEPT !.pos = @ + 1]

\* check_probe_set_id(dest, src)
check_probe_set_id(dest, src) ==
    IF dest = <<>>
    THEN IF Len(src) > MAX_LENGTH_PROBE_SET_ID
         THEN [err |-> "Probe Set Name is too long", dest |-> dest]
         ELSE [err |-> NoError, dest |-> src]
    ELSE IF ~StrcmpEqual(dest, src)
         THEN [err |-> "Probe Set Name mismatch", dest |-> dest]
         ELSE [err |-> NoError, dest |-> dest]

\* the outcome of a part of varitr_loop: the iterator and the tables after
\* it, and how it ended: Go (fall through to the next part), RetEnd (return
\* -1) or RetError with the message of error()
Go == "go"
Out(v, t, how, msg) == [varitr |-> v, txt |-> t, how |-> how, err |-> msg]

\* if (varitr->calls_fp) { ... }: one line of the calls table
ReadCalls(v, t) ==
    IF ~t.calls.open THEN Out(v, t, Go, NoError)
    ELSE IF AtEof(t.calls) THEN Out(v, t, RetEnd, NoError)
    ELSE LET line == NextLine(t.calls)
             t1 == [t EXCEPT !.calls = Advance(@)]
             chk == check_probe_set_id(v.probe_set_id, line.id)
         IN  IF line.ncols # 1 + v.nsmpl
             THEN Out(v, t1, RetError, "Expected columns in the calls file")
             ELSE IF chk.err # NoError
             THEN Out([v EXCEPT !.gts = [i \in 1..v.nsmpl |-> line.val]], t1,
                      RetError, chk.err)
             ELSE Out([v EXCEPT !.gts = [i \in 1..v.nsmpl |-> line.val],
                                !.probe_set_id = chk.dest], t1, Go, NoError)

\* if (varitr->confidences_fp) { ... }: one line of the confidences table
ReadConfidences(v, t) ==
    IF ~t.confidences.open THEN Out(v, t, Go, NoError)
    ELSE IF AtEof(t.confidences) THEN Out(v, t, RetEnd, NoError)
    ELSE LET line == NextLine(t.confidences)
             t1 == [t EXCEPT !.confidences = Advance(@)]
             chk == check_probe_set_id(v.probe_set_id, line.id)
         IN  IF line.ncols # 1 + v.nsmpl
             THEN Out(v, t1, RetError, "Expected columns in the confidences file")
             ELSE IF chk.err # NoError
             THEN Out(v, t1, RetError, chk.err)
             ELSE Out([v EXCEPT !.probe_set_id = chk.dest], t1, Go, NoError)

\* the identifier without its last two characters
Chop2(id) == SubSeq(id, 1, Len(id) - 2)

\* the condition of the do ... while: the peeked bytes are not the -A line's
\* prefix followed by -B
NoCompanion(prefix, buf, len) ==
    \/ Len(buf) < len
    \/ SubSeq(buf, 1, len - 2) # prefix
    \/ buf[len - 1] # "-"
    \/ buf[len] # "B"

\* the do ... while loop: read a line that must end in -A, peek at the bytes
\* that follow it, and start over with the next line while they are not the
\* companion
RECURSIVE ScanSummary(_, _)
ScanSummary(v, t) ==
    IF AtEof(t.summary) THEN Out(v, t, RetEnd, NoError)
    ELSE LET line == NextLine(t.summary)
             t1 == [t EXCEPT !.summary = Advance(@)]
             len == Len(line.id)
         IN  IF line.ncols # 1 + v.nsmpl
             THEN Out(v, t1, RetError, "Expected columns in the summary file")
             ELSE IF line.id[len - 1] # "-" \/ line.id[len] # "A"
             THEN Out(v, t1, RetError, "Found Probe Set ID while a -A was expected")
             ELSE IF len - 2 > MAX_LENGTH_PROBE_SET_ID
             THEN Out(v, t1, RetError, "Cannot read Probe Set intensities")
             ELSE IF NoCompanion(Chop2(line.id), hpeek(t1.summary, len), len)
             THEN Eval(t1, LAMBDA x : ScanSummary(v, x))
             ELSE Out(v, t1, Go, NoError)

\* if (varitr->summary_fp) { ... }: the -A line found by the loop, then the
\* line after it, whose identifier without its last two characters is
\* checked against probe_set_id
ReadSummary(v, t) ==
    IF ~t.summary.open THEN Out(v, t, Go, NoError)
    ELSE Eval(ScanSummary(v, t), LAMBDA a :
             IF a.how # Go THEN a
             ELSE IF AtEof(a.txt.summary) \/ Len(LineBytes(NextLine(a.txt.summary))) <= 1
             THEN Out(v, a.txt, RetError, "Summary file ended prematurely")
             ELSE LET line == NextLine(a.txt.summary)
                      t2 == [a.txt EXCEPT !.summary = Advance(@)]
                      chk == check_probe_set_id(v.probe_set_id, Chop2(line.id))
                  IN  IF line.ncols # 1 + v.nsmpl
                      THEN Out(v, t2, RetError, "Expected columns in the summary file")
                      ELSE IF chk.err # NoError
                      THEN Out(v, t2, RetError, chk.err)
                      ELSE Out([v EXCEPT !.probe_set_id = chk.dest], t2, Go, NoError))

\* varitr_loop with varitr->data_sets NULL
varitr_loop_txt(v, t) ==
    Eval(ReadCalls([v EXCEPT !.probe_set_id = <<>>], t), LAMBDA c :
        IF c.how # Go THEN c
        ELSE Eval(ReadConfidences(c.varitr, c.txt), LAMBDA f :
            IF f.how # Go THEN f
            ELSE Eval(ReadSummary(f.varitr, f.txt), LAMBDA m :
                IF m.how # Go THEN m
                ELSE Out(m.varitr, m.txt, RetRow, NoError))))

-----------------------------------------------------------------------------
\* Cluster models: models_init, adjust_clusters, compute_baf_lrr
\*
\* A float is a fraction n/d in lowest terms with d > 0, and NaN is 0/0; the
\* rounding of the float operations is left out.  The values the libm
\* functions return are terms [f, args] over such fractions.

NaN == [n |-> 0, d |-> 0]
IsNaN(a) == a.d = 0

RECURSIVE Gcd(_, _)
Gcd(a, b) == IF b = 0 THEN a ELSE Gcd(b, a % b)

Abs(a) == IF a < 0 THEN -a ELSE a

\* the fraction n/d, d # 0
Frac(n, d) ==
    LET g == Gcd(Abs(n), Abs(d))
        sgn == IF d < 0 THEN -1 ELSE 1
    IN  [n |-> sgn * (n \div g), d |-> sgn * (d \div g)]

Float(i) == [n |-> i, d |-> 1]

\* a + b, a * b, a / b on floats; b is not zero in a / b
FAdd(a, b) == IF IsNaN(a) \/ IsNaN(b) THEN NaN ELSE Frac(a.n * b.d + b.n * a.d, a.d * b.d)
FMul(a, b) == IF IsNaN(a) \/ IsNaN(b) THEN NaN ELSE Frac(a.n * b.n, a.d * b.d)
FDiv(a, b) == IF IsNaN(a) \/ IsNaN(b) THEN NaN ELSE Frac(a.n * b.d, a.d * b.n)

\* 0.2f, the strength of the prior in adjust_clusters
PriorStrength == [n |-> 1, d |-> 5]

\* cluster_t: xm, ym and k; the variances xss, v, yss, xyss are read from
\* the file and never change
Cluster(xm, ym, k) == [xm |-> xm, ym |-> ym, k |-> k]
NaNCluster == Cluster(NaN, NaN, NaN)

\* the three assignments of adjust_clusters to one cluster before its loop
Scaled_unweighted(c) == [c EXCEPT !.k = PriorStrength]
Scaled(c) ==
    [c EXCEPT !.xm = FMul(@, PriorStrength),
              !.ym = FMul(@, PriorStrength),
              !.k = PriorStrength]

\* case GT_xx of the loop: one more observation of the cluster
Observed(c, x, y) ==
    [c EXCEPT !.k = FAdd(@, Float(1)), !.xm = FAdd(@, x), !.ym = FAdd(@, y)]

\* the two divisions of adjust_clusters for one cluster after its loop
Averaged(c) == [c EXCEPT !.xm = FDiv(@, c.k), !.ym = FDiv(@, c.k)]

\* the loop of adjust_clusters over the samples i..n; a sample whose gts is
\* none of GT_AA, GT_AB, GT_BB is the default case
RECURSIVE AdjustLoop(_, _, _, _, _, _)
AdjustLoop(snp, gts, x, y, n, i) ==
    IF i > n THEN snp
    ELSE Eval(CASE gts[i] = GT_AA -> [snp EXCEPT !.aa = Observed(@, x[i], y[i])]
                [] gts[i] = GT_AB -> [snp EXCEPT !.ab = Observed(@, x[i], y[i])]
                [] gts[i] = GT_BB -> [snp EXCEPT !.bb = Observed(@, x[i], y[i])]
                [] OTHER -> snp,
              LAMBDA s : AdjustLoop(s, gts, x, y, n, i + 1))

\* adjust_clusters(gts, x, y, n, snp): the snp it leaves in the store
adjust_clusters(gts, x, y, n, snp) ==
    Eval(AdjustLoop([snp EXCEPT !.aa = Scaled(@), !.ab = Scaled(@), !.bb = Scaled(@)],
                    gts, x, y, n, 1),
         LAMBDA s : [s EXCEPT !.aa = Averaged(@), !.ab = Averaged(@), !.bb = Averaged(@)])

\* a value computed by atanf, expf, coshf
Term(f, args) == [f |-> f, args |-> args]
IsFloat(t) == "n" \in DOMAIN t

\* (a + b) * 0.5f
HalfSum(a, b) ==
    IF IsFloat(a) /\ IsFloat(b) THEN FMul(FAdd(a, b), [n |-> 1, d |-> 2])
    ELSE Term("half_sum", <<a, b>>)

\* theta and r of a cluster, for birdseed and for brlmm-p models
Theta(c, is_birdseed) ==
    IF is_birdseed THEN Term("atanf(ym/xm)*M_2_PI", <<c.xm, c.ym>>)
    ELSE Term("atanf(expf(-xm*M_LN2))*M_2_PI", <<c.xm>>)
R(c, is_birdseed) ==
    IF is_birdseed THEN FAdd(c.xm, c.ym)
    ELSE Term("expf(ym*M_LN2)*2*coshf(xm*0.5*M_LN2)", <<c.xm, c.ym>>)

\* the AB cluster of the projection: the midpoint for copynumber 1
Midpoint_never(copynumber) == FALSE
Midpoint(copynumber) == copynumber = 1

\* compute_baf_lrr: what it hands to get_baf_lrr for each sample, which
\* gives baf[i] and lrr[i]
compute_baf_lrr(norm_x, norm_y, n, snp, is_birdseed) ==
    LET aa_theta == Theta(snp.aa, is_birdseed)
        bb_theta == Theta(snp.bb, is_birdseed)
        aa_r == R(snp.aa, is_birdseed)
        bb_r == R(snp.bb, is_birdseed)
        ab_theta == IF Midpoint(snp.copynumber) THEN HalfSum(aa_theta, bb_theta)
                    ELSE Theta(snp.ab, is_birdseed)
        ab_r == IF Midpoint(snp.copynumber) THEN HalfSum(aa_r, bb_r)
                ELSE R(snp.ab, is_birdseed)
    IN  [i \in 1..n |->
            [ilmn_theta |-> Term("atanf(y/x)*M_2_PI", <<norm_x[i], norm_y[i]>>),
             ilmn_r |-> FAdd(norm_x[i], norm_y[i]),
             aa_theta |-> aa_theta, ab_theta |-> ab_theta, bb_theta |-> bb_theta,
             aa_r |-> aa_r, ab_r |-> ab_r, bb_r |-> bb_r]]

\* khash_str2int: a map from names to integers
NoKeys == [key \in {} |-> 0]

\* khash_str2int_inc(hash, key): a new key gets kh_size(hash) - 1, the size
\* counting the new key; a key of the map keeps its value
khash_str2int_inc(hash, key) ==
    IF key \in DOMAIN hash THEN hash
    ELSE [k \in DOMAIN hash \cup {key} |->
             IF k = key THEN Cardinality(DOMAIN hash) ELSE hash[k]]

\* khash_str2int_get(hash, key, &idx): ret < 0 when the map has no such key
khash_str2int_get(hash, key) ==
    IF key \in DOMAIN hash THEN [ret |-> 0, idx |-> hash[key]]
    ELSE [ret |-> -1, idx |-> 0]

\* models_t; loaded is FALSE for the NULL pointer of a run without --models.
\* probe_set_id[b] and snps[b] are those of bucket b - 1 of the code: the
\* first for the other copy numbers, the second for copy number 2
NoModels == [loaded |-> FALSE, is_birdseed |-> FALSE,
             probe_set_id |-> <<NoKeys, NoKeys>>, snps |-> <<<<>>, <<>>>>]
NoModelsFile == [pending |-> FALSE, format |-> "none", lines |-> <<>>]

\* a column of a line of the models file holds the numbers of a cluster, or
\* fewer numbers than exp_cols
IsCluster(col) == "xm" \in DOMAIN col

\* one pass of the do ... while of models_init over a line [id, copynumber,
\* cols], the identifier without its copy number suffix: [models, err]
LoadLine(m, line) ==
    LET b == IF line.copynumber = 2 THEN 2 ELSE 1
        hap_birdseed == m.is_birdseed /\ line.copynumber = 1
        need == IF m.is_birdseed THEN 4 - (2 - line.copynumber) ELSE 4
        cols == line.cols
        used == IF hap_birdseed THEN 2 ELSE 3
        snp == IF m.is_birdseed
               THEN [probe_set_id |-> line.id, copynumber |-> line.copynumber,
                     aa |-> cols[1],
                     ab |-> IF hap_birdseed THEN NaNCluster ELSE cols[2],
                     bb |-> IF hap_birdseed THEN cols[2] ELSE cols[3]]
               ELSE [probe_set_id |-> line.id, copynumber |-> line.copynumber,
                     bb |-> cols[1], ab |-> cols[2], aa |-> cols[3]]
        keyed == [m EXCEPT !.probe_set_id[b] =
                     khash_str2int_inc(@, line.id)]
    IN  IF 1 + Len(cols) < need \/ \E k \in 1..used : ~IsCluster(cols[k])
        THEN [models |-> keyed,
              err |-> "Missing information for probeset in SNP posterior models file"]
        ELSE [models |-> [keyed EXCEPT !.snps[b] = Append(@, snp)], err |-> NoError]

\* the do ... while of models_init from line i on
RECURSIVE LoadLines(_, _, _)
LoadLines(r, lines, i) ==
    IF i > Len(lines) \/ r.err # NoError THEN r
    ELSE Eval(LoadLine(r.models, lines[i]), LAMBDA x : LoadLines(x, lines, i + 1))

\* models_init(fn): the header line tells the format, "brlmmp" for the line
\* id BB AB AA CV, "birdseed" for a first line without a tab
models_init(file) ==
    LET empty == [NoModels EXCEPT !.loaded = TRUE,
                                  !.is_birdseed = file.format = "birdseed"]
    IN  IF file.format \notin {"brlmmp", "birdseed"}
        THEN [models |-> empty, err |-> "Malformed SNP model file"]
        ELSE IF file.lines = <<>>
        THEN [models |-> empty,
              err |-> IF file.format = "birdseed" THEN "Empty file"
                      ELSE "Missing information in SNP models file"]
        ELSE LoadLines([models |-> empty, err |-> NoError], file.lines, 1)

-----------------------------------------------------------------------------
\* process: the variant assembler

\* record_t as process reads it: the chromosome is one the header names
\* (rid >= 0), the position, the strand, the kind of flank sequence
NoFlank == "NULL"
SnpFlank == "[A/G]"
IndelFlank == "[-/A]"

\* the locals of an iteration that did not get to set them
NoIdx == -1
NoIndel == <<>>

\* process before its loop
ProcStart ==
    [pc |-> "loop", i |-> 0, n_missing |-> 0, n_no_models |-> 0, n_skipped |-> 0,
     idx |-> NoIdx, ref_is_del |-> NoIndel, snp |-> <<>>, last |-> "none"]
NoSink == [n |-> 0, last |-> <<>>]

\* the specifications of the iterator alone never call process
NoProcess ==
    /\ have_varitr = TRUE
    /\ annot = <<>>
    /\ proc = [ProcStart EXCEPT !.pc = "off"]
    /\ sink = NoSink
    /\ printed = <<>>

\* the specifications of the iterator and of process start once the
\* containers are decoded: agcc_init is not running
NoStream == [cells |-> <<>>, pos |-> 0]
NoAgcc == [pc |-> "off", num_data_groups |-> 0, pos_first_data_group |-> 0,
           data_groups |-> <<>>, size |-> 0]
NoXdaCel == [pc |-> "off", flags |-> 0]
AgccDecoded == fp = NoStream /\ agcc = NoAgcc /\ xda_cel = NoXdaCel

\* a run without --models, with none of the flags that process tests
WithoutModels == models_fn = NoModelsFile /\ models = NoModels /\ flags = {}

\* khash_str2int_get(annot->probe_set_id, id, &idx): the index of the
\* record with that identifier, NoIdx (ret < 0) when there is none
Lookup(a, id) ==
    IF \E k \in 1..Len(a) : a[k].probe_set_id = id
    THEN CHOOSE k \in 1..Len(a) : a[k].probe_set_id = id
    ELSE NoIdx

\* a wrong test would forget the flank
Unlocalized_noflank(record) ==
    ~record.chrom_ok \/ record.position - 1 < 0 \/ record.strand < 0

\* rec->rid < 0 || rec->pos < 0 || record->strand < 0 || !record->flank
Unlocalized(record) ==
    \/ ~record.chrom_ok
    \/ record.position - 1 < 0
    \/ record.strand < 0
    \/ record.flank = NoFlank

\* the switch over varitr->gts[i]: the two alleles of the genotype, by name
\* (bcf_gt_missing, or the manifest's allele A or B), Malformed for default
Malformed == "malformed"
GtAlleles(g) ==
    CASE g = GT_NC -> <<".", ".">>
      [] g = GT_AA -> <<"A", "A">>
      [] g = GT_AB -> <<"A", "B">>
      [] g = GT_BB -> <<"B", "B">>
      [] OTHER -> Malformed

\* genotypes are written when the rows come from containers or a calls table
HasGenotypes(ds, t) == ds # <<>> \/ t.calls.open

\* a wrong handling of a failed indel resolution would not count it
AfterIndel_uncounted(ref_is_del, n_missing) ==
    [n_missing |-> n_missing,
     allele_b_idx |-> IF ref_is_del < 0 THEN 1 ELSE ref_is_del]

\* the lines after get_indel_alleles: a negative result is counted in
\* n_missing and the record goes on with allele_b_idx 1
AfterIndel(ref_is_del, n_missing) ==
    [n_missing |-> IF ref_is_del < 0 THEN n_missing + 1 ELSE n_missing,
     allele_b_idx |-> IF ref_is_del < 0 THEN 1 ELSE ref_is_del]

\* a wrong handling of an identifier the manifest lacks would skip the row
\* and go on
NotFound_skip(p) ==
    [proc |-> [p EXCEPT !.i = @ + 1, !.n_skipped = @ + 1, !.last = "skipped"],
     err |-> NoError]

\* if (ret < 0) error("Probe Set %s not found in manifest file\n", ...)
NotFound(p) ==
    [proc |-> [p EXCEPT !.last = "abort"],
     err |-> "Probe Set not found in manifest file"]

\* the fprintf after the loop
TalliesLine(p) == <<p.i, p.n_missing, p.n_skipped>>

\* snp_t *snp of an iteration: <<b, k>> for &models->snps[b - 1][k - 1], the
\* diploid bucket first, <<>> for NULL
SelectSnp_haploid_first(rets, idxs) ==
    IF rets[1] >= 0 THEN <<1, idxs[1] + 1>>
    ELSE IF rets[2] >= 0 THEN <<2, idxs[2] + 1>>
    ELSE <<>>
SelectSnp(rets, idxs) ==
    IF rets[2] >= 0 THEN <<2, idxs[2] + 1>>
    ELSE IF rets[1] >= 0 THEN <<1, idxs[1] + 1>>
    ELSE <<>>

\* if (!snp) n_no_models++
CountNoModel_uncounted(n_no_models, snp) == n_no_models
CountNoModel(n_no_models, snp) == IF snp = <<>> THEN n_no_models + 1 ELSE n_no_models

\* varitr->gts as adjust_clusters reads it: gts[i] is what varitr_loop
\* wrote, and without a calls table what malloc left there, junk[i]
GtsRead(gts, n, junk) == [i \in 1..n |-> IF i \in DOMAIN gts THEN gts[i] ELSE junk[i]]

\* if (models) { ... }: the cluster INFO fields of the two buckets, the snp
\* chosen, its adjustment in the store and its projection.  dim[i] holds
\* the intensities of sample i that the iterator read at this step
ModelsPart(m, fl, id, v, dim, junk) ==
    LET n == v.nsmpl
        got == [b \in 1..2 |-> khash_str2int_get(m.probe_set_id[b], id)]
        rets == [b \in 1..2 |-> got[b].ret]
        idxs == [b \in 1..2 |-> got[b].idx]
        info == [b \in 1..2 |-> IF rets[b] >= 0 THEN <<m.snps[b][idxs[b] + 1]>> ELSE <<>>]
        snp == SelectSnp(rets, idxs)
    IN  IF snp = <<>>
        THEN [models |-> m, snp |-> snp, info |-> info, baf_lrr |-> <<>>]
        ELSE LET x == [i \in 1..n |-> IF m.is_birdseed THEN dim[i].norm_x ELSE dim[i].delta]
                 y == [i \in 1..n |-> IF m.is_birdseed THEN dim[i].norm_y ELSE dim[i].size]
                 m1 == IF "ADJUST_CLUSTERS" \in fl
                       THEN [m EXCEPT !.snps[snp[1]][snp[2]] =
                                adjust_clusters(GtsRead(v.gts, n, junk), x, y, n, @)]
                       ELSE m
             IN  [models |-> m1, snp |-> snp, info |-> info,
                  baf_lrr |-> IF "SUMMARY_LOADED" \in fl
                              THEN <<compute_baf_lrr([i \in 1..n |-> dim[i].norm_x],
                                                     [i \in 1..n |-> dim[i].norm_y],
                                                     n, m1.snps[snp[1]][snp[2]],
                                                     m1.is_birdseed)>>
                              ELSE <<>>]
NoModelsPart == [models |-> models, snp |-> <<>>, info |-> <<<<>>, <<>>>>, baf_lrr |-> <<>>]

\* norm_x, norm_y, delta, size of one sample at one step, delta and size
\* being log2(x) - log2(y) and (log2(x) + log2(y)) / 2
Intensity ==
    {[norm_x |-> Float(2), norm_y |-> Float(2), delta |-> Float(0), size |-> Float(1)],
     [norm_x |-> Float(4), norm_y |-> Float(1), delta |-> Float(2), size |-> Float(1)]}

\* the intensities the iterator read at this step; they are looked at only
\* in the models part of the same iteration
RowIntensities(n) ==
    IF models.loaded /\ flags # {}
    THEN [1..n -> Intensity]
    ELSE {[i \in 1..n |-> CHOOSE e \in Intensity : TRUE]}

\* what the unwritten ints of varitr->gts hold when adjust_clusters reads
\* them: any value, of which the switch tells GT_AA, GT_AB, GT_BB from the
\* others
GtsJunk(n) ==
    IF models.loaded /\ "ADJUST_CLUSTERS" \in flags /\ ~HasGenotypes(data_sets, txt)
    THEN [1..n -> {GT_NC, GT_AA, GT_AB, GT_BB}]
    ELSE {<<>>}

\* what the collaborators outside this file answer in one iteration:
\* get_indel_alleles (ref_is_del), get_allele_b_idx, alleles_ab_to_vcf
\* (nals), bcf_write (write_ok); and the intensities of the step (dim)
Answers(flank, n) ==
    IF flank = IndelFlank
    THEN [ref_is_del : {-1, 0, 1}, allele_b_idx : {0}, nals : {-1, 2}, write_ok : BOOLEAN,
          dim : RowIntensities(n), junk : GtsJunk(n)]
    ELSE [ref_is_del : {0}, allele_b_idx : {0, 1}, nals : {-1, 2}, write_ok : BOOLEAN,
          dim : RowIntensities(n), junk : GtsJunk(n)]

\* one iteration from the record on: p is proc with idx set, v the iterator
\* after its step, ext the collaborators' answers
Assemble(p, record, v, ds, t, snk, ext) ==
    IF Unlocalized(record)
    THEN [proc |-> [p EXCEPT !.i = @ + 1, !.n_skipped = @ + 1, !.last = "skipped"],
          sink |-> snk, models |-> models, err |-> NoError]
    ELSE LET indel == record.flank = IndelFlank
             ai == IF indel THEN AfterIndel(ext.ref_is_del, p.n_missing)
                   ELSE [n_missing |-> p.n_missing,
                         allele_b_idx |-> ext.allele_b_idx]
             p1 == [p EXCEPT !.n_missing = ai.n_missing,
                             !.ref_is_del = IF indel THEN <<ext.ref_is_del>> ELSE NoIndel]
             gts == IF have_varitr /\ HasGenotypes(ds, t)
                    THEN [i \in 1..v.nsmpl |-> GtAlleles(v.gts[i])]
                    ELSE <<>>
         IN  IF ext.nals < 0
             THEN [proc |-> [p1 EXCEPT !.last = "abort"], sink |-> snk,
                   models |-> models, err |-> "Unable to process Probe Set"]
             ELSE IF \E i \in DOMAIN gts : gts[i] = Malformed
             THEN [proc |-> [p1 EXCEPT !.last = "abort"], sink |-> snk,
                   models |-> models, err |-> "Genotype for Probe Set ID is malformed"]
             ELSE Eval(IF models.loaded
                       THEN ModelsPart(models, flags, record.probe_set_id, v, ext.dim, ext.junk)
                       ELSE NoModelsPart, LAMBDA mp :
                  LET p2 == [p1 EXCEPT !.snp = mp.snp,
                                       !.n_no_models = IF models.loaded
                                                       THEN CountNoModel(@, mp.snp)
                                                       ELSE @]
                      rec == [id |-> record.probe_set_id,
                              allele_b_idx |-> ai.allele_b_idx, gt |-> gts,
                              info |-> mp.info, baf_lrr |-> mp.baf_lrr]
                  IN  IF ~ext.write_ok
                      THEN [proc |-> [p2 EXCEPT !.last = "abort"], sink |-> snk,
                            models |-> mp.models,
                            err |-> "Unable to write to output VCF file"]
                      ELSE [proc |-> [p2 EXCEPT !.i = @ + 1, !.last = "written"],
                            sink |-> [n |-> snk.n + 1, last |-> <<rec>>],
                            models |-> mp.models, err |-> NoError])

\* the iterator's step of an iteration, rows being what the containers hold
PullRow(rows) ==
    IF data_sets # <<>>
    THEN LET r == varitr_loop_cc(varitr, data_sets, rows)
         IN  [varitr |-> r.varitr, data_sets |-> r.data_sets, txt |-> txt,
              ret |-> r.ret, at |-> r.at, err |-> r.err]
    ELSE LET r == varitr_loop_txt(varitr, txt)
         IN  [varitr |-> r.varitr, data_sets |-> data_sets, txt |-> r.txt,
              ret |-> r.how, at |-> itr_at, err |-> r.err]

\* the tail of an iteration: record idx is assembled with some answers of
\* the collaborators
AssembleRecord(p, idx, v, ds, t) ==
    \E ext \in Answers(annot[idx].flank, v.nsmpl) :
        \E r \in {Assemble([p EXCEPT !.idx = idx], annot[idx], v, ds, t, sink, ext)} :
            /\ proc' = r.proc
            /\ sink' = r.sink
            /\ models' = r.models
            /\ err' = r.err
            /\ printed' = printed

\* proc at the top of an iteration: idx and ref_is_del are not set yet
Fresh(p) == [p EXCEPT !.idx = NoIdx, !.ref_is_del = NoIndel, !.snp = <<>>]

\* one iteration of the for loop of process, Rows being the rows the
\* containers may hold at this step
ProcessRecord(Rows) ==
    /\ err = NoError
    /\ proc.pc = "loop"
    /\ proc.i < Len(annot)
    /\ ~models_fn.pending
    /\ UNCHANGED <<have_varitr, annot, agccvars, models_fn, flags>>
    /\ IF ~have_varitr
       THEN /\ UNCHANGED itrvars
            /\ AssembleRecord(Fresh(proc), proc.i + 1, varitr, data_sets, txt)
       ELSE \E rows \in (IF data_sets # <<>> THEN Rows ELSE {<<>>}) :
            \E it \in {PullRow(rows)} :
            \E idx \in {Lookup(annot, it.varitr.probe_set_id)} :
                /\ varitr' = it.varitr
                /\ data_sets' = it.data_sets
                /\ txt' = it.txt
                /\ itr_ret' = it.ret
                /\ itr_at' = it.at
                /\ IF it.ret = RetEnd
                   THEN /\ proc' = [Fresh(proc) EXCEPT !.pc = "done", !.last = "end"]
                        /\ printed' = <<TalliesLine(proc)>>
                        /\ UNCHANGED <<sink, err, models>>
                   ELSE IF it.ret = RetError
                   THEN /\ proc' = [Fresh(proc) EXCEPT !.last = "abort"]
                        /\ err' = it.err
                        /\ UNCHANGED <<sink, printed, models>>
                   ELSE IF idx = NoIdx
                   THEN LET nf == NotFound(Fresh(proc))
                        IN  /\ proc' = nf.proc
                            /\ err' = nf.err
                            /\ UNCHANGED <<sink, printed, models>>
                   ELSE AssembleRecord(Fresh(proc), idx, it.varitr, it.data_sets, it.txt)

\* the loop ends at annot->n_records and the line of tallies is printed
ProcessEnd ==
    /\ err = NoError
    /\ proc.pc = "loop"
    /\ proc.i >= Len(annot)
    /\ ~models_fn.pending
    /\ proc' = [proc EXCEPT !.pc = "done", !.last = "end"]
    /\ printed' = <<TalliesLine(proc)>>
    /\ UNCHANGED <<itrvars, err, have_varitr, annot, sink, agccvars, mdlvars>>

-----------------------------------------------------------------------------
\* The iterator on its own: varitr_init_cc, then varitr_loop called again and
\* again, also after it returned -1

\* probe-set names a row may hold (the n bytes after the length prefix)
Names == {<<>>, <<"a">>, <<"b">>, <<"a", "b">>, <<"a", NUL>>}

\* call bytes of the rows read in this specification
ItrCalls == {6}

ItrRows == [name : Names, call : ItrCalls, eof : {FALSE}] \cup {Truncated}

InitItr ==
    /\ \E n \in 1..NSmpl :
        /\ varitr = [nsmpl |-> n, nrow |-> 0, probe_set_id |-> <<>>,
                     gts |-> Unwritten]
        /\ \E nr \in [1..n -> 0..MaxRows] :
              data_sets = [i \in 1..n |->
                              [n_rows |-> nr[i], read |-> 0, buffer |-> <<>>]]
    /\ txt = NoTables
    /\ itr_ret = RetNone
    /\ itr_at = 0
    /\ err = NoError
    /\ NoProcess
    /\ AgccDecoded
    /\ WithoutModels

CallVaritrLoop ==
    /\ err = NoError
    /\ varitr.nrow < MaxRows + ExtraCalls
    /\ \E rows \in [1..varitr.nsmpl -> ItrRows] :
          \E r \in {varitr_loop_cc(varitr, data_sets, rows)} :
              /\ varitr' = r.varitr
              /\ data_sets' = r.data_sets
              /\ itr_ret' = r.ret
              /\ itr_at' = r.at
              /\ err' = r.err
    /\ UNCHANGED txt
    /\ UNCHANGED <<procvars, agccvars, mdlvars>>

NextItr == CallVaritrLoop

SpecItr == InitItr /\ [][NextItr]_vars

\* the identifier decoded from sample i's row in the last step
DecodedName(i) == data_sets[i].buffer[1].name
Samples == 1..varitr.nsmpl
\* a varitr_loop call happens in this step
Stepped == varitr'.nrow # varitr.nrow

\* C1: a binary-mode step succeeds only if every sample's decoded identifier
\* equals (same length, same bytes) the one decoded from the first sample
C1_StepSucceedsOnlyIfIdsEqual ==
    itr_ret = RetRow => \A i \in Samples : DecodedName(i) = DecodedName(1)

\* C4: between steps all cursors have consumed the same number of rows
C4_Lockstep ==
    \A i, j \in Samples : data_sets[i].read = data_sets[j].read

\* C5: a step reports the end exactly when some data set has already had
\* n_rows rows consumed, and no data set is ever read beyond its n_rows rows
C5_EndAtFirstExhaustion ==
    /\ [](\A i \in Samples : data_sets[i].read <= data_sets[i].n_rows)
    /\ [][Stepped =>
            ((itr_ret' = RetEnd)
                <=> (\E i \in Samples : data_sets[i].read >= data_sets[i].n_rows))]_vars

\* C6 as stated: a request for a row beyond n_rows calls error()
C6_RequestBeyondRowCountAborts ==
    \A i \in Samples :
        (itr_at = i /\ varitr.nrow > data_sets[i].n_rows) => itr_ret = RetError

\* C6 as amended: a step reads exactly one row from each data set it reaches
\* that has rows left, reads nothing from a data set whose n_rows rows were
\* all read, never goes past such a data set, and stops at it returning -1
\* without an error
C6_RequestBeyondRowCountEnds ==
    [][Stepped =>
        \A i \in Samples :
            IF data_sets[i].read >= data_sets[i].n_rows
            THEN /\ data_sets'[i].read = data_sets[i].read
                 /\ itr_at' # 0 /\ itr_at' <= i
                 /\ itr_at' = i => (itr_ret' = RetEnd /\ err' = NoError)
            ELSE (itr_at' = 0 \/ itr_at' > i)
                    => data_sets'[i].read = data_sets[i].read + 1]_vars

\* C6: the third request to a 2-row data set has ended the iteration
C6_Witness ==
    \E i \in Samples :
        /\ itr_ret = RetEnd /\ itr_at = i /\ err = NoError
        /\ data_sets[i].n_rows = 2 /\ data_sets[i].read = 2
        /\ varitr.nrow = 3

-----------------------------------------------------------------------------
\* The iterator over tables on its own: varitr_init_txt, then varitr_loop
\* called until it returns -1 or the run ends in error()

\* all sequences over S of length at most n
RECURSIVE SeqUpTo(_, _)
SeqUpTo(S, n) ==
    IF n = 0 THEN {<<>>}
    ELSE LET shorter == SeqUpTo(S, n - 1)
         IN  shorter \cup {Append(q, x) : q \in {r \in shorter : Len(r) = n - 1}, x \in S}

\* identifiers of the lines of a summary table, and of the other tables
SummaryIds == {<<"p", "-", "A">>, <<"p", "-", "B">>, <<"q", "-", "A">>, <<"q", "-", "B">>}
TableIds == {<<"p">>, <<"q">>}
\* what strtol makes of the fields of a calls line
TxtCalls == {GT_AA}

Table(lines) == [open |-> TRUE, lines |-> lines, pos |-> 0]
SummaryTables(n) ==
    {Table(l) : l \in SeqUpTo([id : SummaryIds, ncols : {1 + n}], MaxSumLines)}
CallsTables(n) ==
    {Table(l) : l \in SeqUpTo([id : TableIds, ncols : {1 + n}, val : TxtCalls], MaxTblLines)}
ConfidencesTables(n) ==
    {Table(l) : l \in SeqUpTo([id : TableIds, ncols : {1 + n}], MaxTblLines)}

InitTxt ==
    /\ \E n \in 1..NSmpl :
        /\ varitr = [nsmpl |-> n, nrow |-> 0, probe_set_id |-> <<>>,
                     gts |-> Unwritten]
        /\ \E c \in CallsTables(n) \cup {NoFile},
              f \in ConfidencesTables(n) \cup {NoFile},
              m \in SummaryTables(n) \cup {NoFile} :
                /\ c.open \/ f.open \/ m.open
                /\ txt = [calls |-> c, confidences |-> f, summary |-> m]
    /\ data_sets = <<>>
    /\ itr_ret = RetNone
    /\ itr_at = 0
    /\ err = NoError
    /\ NoProcess
    /\ AgccDecoded
    /\ WithoutModels

CallVaritrLoopTxt ==
    /\ err = NoError
    /\ itr_ret # RetEnd
    /\ \E r \in {varitr_loop_txt(varitr, txt)} :
           /\ varitr' = r.varitr
           /\ txt' = r.txt
           /\ itr_ret' = r.how
           /\ err' = r.err
    /\ UNCHANGED <<data_sets, itr_at>>
    /\ UNCHANGED <<procvars, agccvars, mdlvars>>

NextTxt == CallVaritrLoopTxt

SpecTxt == InitTxt /\ [][NextTxt]_vars

\* line k of the summary table ends in -A and line k+1 is not its companion
EndsIn(id, c) == Len(id) >= 2 /\ id[Len(id) - 1] = "-" /\ id[Len(id)] = c
Unpaired(k) ==
    LET l == txt.summary.lines
    IN  /\ EndsIn(l[k].id, "A")
        /\ \/ k = Len(l)
           \/ l[k + 1].id # Chop2(l[k].id) \o <<"-", "B">>

\* C3: when a -A line that was read is not followed by its -B companion, the
\* run has ended in error(): no -A line is dropped, the iteration does not
\* end on it
C3_UnpairedLineAborts ==
    \A k \in 1..txt.summary.pos : Unpaired(k) => err # NoError

-----------------------------------------------------------------------------
\* A run of process: over the manifest alone, over containers, over tables

\* the probe-set identifier of the k-th record of the manifest
IdOf(k) == <<<<"p">>, <<"q">>, <<"r">>, <<"s">>>>[k]

\* the records of a manifest: a SNP and an indel that can be placed, and
\* records with no chromosome of the header, no position, no strand, no flank
RecordKinds ==
    {[chrom_ok |-> TRUE, position |-> 1, strand |-> 0, flank |-> SnpFlank],
     [chrom_ok |-> TRUE, position |-> 1, strand |-> 1, flank |-> IndelFlank],
     [chrom_ok |-> FALSE, position |-> 1, strand |-> 0, flank |-> SnpFlank],
     [chrom_ok |-> TRUE, position |-> 0, strand |-> 0, flank |-> SnpFlank],
     [chrom_ok |-> TRUE, position |-> 1, strand |-> -1, flank |-> IndelFlank],
     [chrom_ok |-> TRUE, position |-> 1, strand |-> 0, flank |-> NoFlank]}

Manifests(Kinds, lo) ==
    UNION {{[k \in 1..n |->
                [probe_set_id |-> IdOf(k), chrom_ok |-> kd[k].chrom_ok,
                 position |-> kd[k].position, strand |-> kd[k].strand,
                 flank |-> kd[k].flank]] : kd \in [1..n -> Kinds]}
           : n \in lo..MaxRecords}

\* varitr_init_cc over n containers that declare r rows each
Containers(n, r) ==
    /\ have_varitr = TRUE
    /\ varitr = [nsmpl |-> n, nrow |-> 0, probe_set_id |-> <<>>, gts |-> Unwritten]
    /\ data_sets = [i \in 1..n |-> [n_rows |-> r, read |-> 0, buffer |-> <<>>]]
    /\ txt = NoTables

\* the rows of the containers at one step: every container names the same
\* probe set, which the manifest may hold or not
ProcNames == {<<"p">>, <<"q">>, <<"z">>}
ProcRows(n) ==
    {[i \in 1..n |-> [name |-> nm, call |-> 6, eof |-> FALSE]] : nm \in ProcNames}

\* a summary table of well-formed pairs of lines
RECURSIVE Pairs(_, _)
Pairs(ids, n) ==
    IF ids = <<>> THEN <<>>
    ELSE <<[id |-> Head(ids) \o <<"-", "A">>, ncols |-> 1 + n],
           [id |-> Head(ids) \o <<"-", "B">>, ncols |-> 1 + n]>> \o Pairs(Tail(ids), n)
PairTables(n) == {Table(Pairs(ids, n)) : ids \in SeqUpTo(TableIds, MaxTblLines)}

InitProc ==
    /\ annot \in Manifests(RecordKinds, 0)
    /\ \/ /\ have_varitr = FALSE
          /\ varitr = [nsmpl |-> 0, nrow |-> 0, probe_set_id |-> <<>>, gts |-> Unwritten]
          /\ data_sets = <<>>
          /\ txt = NoTables
       \/ \E n \in 1..NSmpl, r \in 0..MaxRows : Containers(n, r)
       \/ \E n \in 1..NSmpl :
             /\ have_varitr = TRUE
             /\ varitr = [nsmpl |-> n, nrow |-> 0, probe_set_id |-> <<>>,
                          gts |-> Unwritten]
             /\ data_sets = <<>>
             /\ \E c \in CallsTables(n) \cup {NoFile}, m \in PairTables(n) \cup {NoFile} :
                   /\ c.open \/ m.open
                   /\ txt = [calls |-> c, confidences |-> NoFile, summary |-> m]
    /\ itr_ret = RetNone
    /\ itr_at = 0
    /\ err = NoError
    /\ proc = ProcStart
    /\ sink = NoSink
    /\ printed = <<>>
    /\ AgccDecoded
    /\ WithoutModels

ProcessNext == ProcessRecord(ProcRows(varitr.nsmpl))

NextProc == ProcessNext \/ ProcessEnd

SpecProc == InitProc /\ [][NextProc]_vars

\* the state is at the top of an iteration of the loop of process
AtIteration == err = NoError /\ proc.pc = "loop" /\ proc.i < Len(annot)
\* the iterator has just yielded an identifier the manifest does not hold
YieldedAbsentId ==
    /\ have_varitr /\ itr_ret = RetRow
    /\ Lookup(annot, varitr.probe_set_id) = NoIdx

\* C8 as stated: on an identifier absent from the manifest a run over
\* containers aborts, a run over tables counts a skipped record and goes on
C8_AbsentIdSkippedInTableRun ==
    YieldedAbsentId =>
        IF data_sets # <<>>
        THEN err = "Probe Set not found in manifest file"
        ELSE err = NoError /\ proc.last = "skipped"

\* C8 as amended: on an identifier absent from the manifest the run aborts,
\* over containers and over tables alike; nothing is counted or written
C8_AbsentIdAbortsEveryRun ==
    [][(AtIteration /\ YieldedAbsentId') =>
        /\ err' = "Probe Set not found in manifest file"
        /\ proc'.last = "abort"
        /\ proc'.i = proc.i /\ proc'.n_skipped = proc.n_skipped
        /\ sink' = sink /\ printed' = printed]_vars

\* C8: a run over tables has aborted on an identifier the manifest lacks
C8_Witness ==
    /\ YieldedAbsentId /\ data_sets = <<>> /\ txt.calls.open
    /\ err = "Probe Set not found in manifest file"

\* C9 as stated: a record whose indel alleles cannot be resolved
\* (ref_is_del < 0) is skipped: counted as skipped, nothing written
C9_FailedIndelIsSkipped ==
    [][(AtIteration /\ proc'.ref_is_del = <<-1>> /\ err' = NoError) =>
        /\ proc'.n_skipped = proc.n_skipped + 1
        /\ sink' = sink]_vars

\* C9 as amended: such a record is counted in n_missing, not in n_skipped,
\* and goes on with allele B index 1: unless a later error() ends the run,
\* it is written to the sink
C9_FailedIndelIsCountedAndWritten ==
    [][(AtIteration /\ proc'.ref_is_del = <<-1>>) =>
        /\ proc'.n_missing = proc.n_missing + 1
        /\ proc'.n_skipped = proc.n_skipped
        /\ err' = NoError =>
            /\ proc'.last = "written"
            /\ proc'.i = proc.i + 1
            /\ sink'.n = sink.n + 1
            /\ sink'.last[1].id = annot[proc'.idx].probe_set_id
            /\ sink'.last[1].allele_b_idx = 1]_vars

\* C9: a record with unresolved indel alleles was written
C9_Witness ==
    /\ proc.ref_is_del = <<-1>> /\ proc.last = "written"
    /\ proc.n_missing >= 1 /\ sink.n >= 1
    /\ sink.last[1].id = annot[proc.idx].probe_set_id

\* the four reasons for which a record is skipped
CannotBePlaced(record) ==
    \/ ~record.chrom_ok
    \/ record.position < 1
    \/ record.strand < 0
    \/ record.flank = NoFlank

\* C10: an iteration that completes either counts the record as skipped and
\* writes nothing (for one of the four reasons) or writes exactly that
\* record; an iteration that does not complete does neither; so the line of
\* tallies has written + skipped = total
C10_SkippedOrWritten ==
    /\ [](proc.pc = "done" =>
            /\ printed = <<<<proc.i, proc.n_missing, proc.n_skipped>>>>
            /\ sink.n + proc.n_skipped = printed[1][1])
    /\ [][AtIteration =>
            CASE proc'.last = "skipped" ->
                    /\ CannotBePlaced(annot[proc'.idx])
                    /\ proc'.n_skipped = proc.n_skipped + 1
                    /\ proc'.i = proc.i + 1
                    /\ sink' = sink
              [] proc'.last = "written" ->
                    /\ ~CannotBePlaced(annot[proc'.idx])
                    /\ proc'.n_skipped = proc.n_skipped
                    /\ proc'.i = proc.i + 1
                    /\ sink'.n = sink.n + 1
                    /\ sink'.last[1].id = annot[proc'.idx].probe_set_id
              [] OTHER ->
                    /\ proc'.n_skipped = proc.n_skipped
                    /\ proc'.i = proc.i
                    /\ sink' = sink]_vars

\* C10: the line of tallies was printed after a record was written and
\* another was skipped
C10_Witness ==
    /\ proc.pc = "done" /\ printed # <<>>
    /\ sink.n >= 1 /\ proc.n_skipped >= 1
    /\ printed[1][1] = sink.n + proc.n_skipped

-----------------------------------------------------------------------------
\* A run of process over containers whose rows hold any of the 16 call codes

\* the rows at one step: the probe set of the first record, call AA in every
\* sample but one, which holds code c
CallRows(n) ==
    {[i \in 1..n |-> [name |-> IdOf(1), call |-> IF i = k THEN c ELSE 6, eof |-> FALSE]]
        : k \in 1..n, c \in 0..15}

InitCalls ==
    /\ annot \in Manifests({k \in RecordKinds : ~Unlocalized(k)}, 1)
    /\ \E n \in 1..NSmpl, r \in 0..MaxRows : Containers(n, r)
    /\ itr_ret = RetNone
    /\ itr_at = 0
    /\ err = NoError
    /\ proc = ProcStart
    /\ sink = NoSink
    /\ printed = <<>>
    /\ AgccDecoded
    /\ WithoutModels

ProcessCalls == ProcessRecord(CallRows(varitr.nsmpl))

NextCalls == ProcessCalls \/ ProcessEnd

SpecCalls == InitCalls /\ [][NextCalls]_vars

\* the call code held by sample i's row buffer: the low 4 bits of the byte
CallCode(i) == data_sets[i].buffer[1].call % 16

\* C2: codes 6, 7, 8, 11 decode as AA, BB, AB, NoCall; a record is emitted
\* only from rows whose codes are among these four, and its genotype is
\* missing only for code 11
C2_InvalidCallCodeAborts ==
    (data_sets # <<>> /\ proc.last = "written") =>
        \A i \in 1..varitr.nsmpl :
            /\ CallCode(i) \in {6, 7, 8, 11}
            /\ CallCode(i) = 6 => varitr.gts[i] = GT_AA
            /\ CallCode(i) = 7 => varitr.gts[i] = GT_BB
            /\ CallCode(i) = 8 => varitr.gts[i] = GT_AB
            /\ CallCode(i) = 11 => varitr.gts[i] = GT_NC
            /\ sink.last[1].gt[i] = <<".", ".">> => CallCode(i) = 11

-----------------------------------------------------------------------------
\* The Calvin/AGCC container decoder: agcc_init
\*
\* The file is a sequence of blocks and a position counts the blocks before
\* it; the offsets stored in the file are positions.  A block is three
\* big-endian words, which mean what the routine that reads them takes them
\* for: the file header (with the generic data header that follows it), the
\* header of a data group, the header of a data set, or rows of data.

\* magic number and version of the file header
AGCC_MAGIC == 59
AGCC_VERSION == 1

\* number of data groups of a file, and of data sets of a group
MaxGroups == 2
MaxSets == 1

\* hgetc(fp) == EOF: there is no byte to read at the position
heof_always(f) == TRUE
heof(f) == f.pos >= Len(f.cells)

\* hseek(fp, offset, SEEK_SET): the file is a regular file, on which a seek
\* to any offset succeeds, also to one beyond the end of the file
hseek(f, offset) == [f EXCEPT !.pos = offset]

\* read_bytes and the read_long, read_string16 built on it: the block at
\* the position, and an error() when the stream has none left
CanRead(f) == f.pos < Len(f.cells)
Block(f) == f.cells[f.pos + 1]
Skip(f) == [f EXCEPT !.pos = f.pos + 1]

\* agcc_read_data_set, on r = [fp, err, data_sets]
agcc_read_data_set(r) ==
    IF r.err # NoError THEN r
    ELSE IF ~CanRead(r.fp)
    THEN [r EXCEPT !.err = "Failed to read bytes from stream"]
    ELSE LET b == Block(r.fp)
             data_set == [pos_first_element |-> b[1],
                          pos_next_data_set |-> b[2],
                          n_rows |-> b[3]]
             f == Skip(r.fp)
         IN  [r EXCEPT !.fp = IF data_set.pos_next_data_set # 0
                              THEN hseek(f, data_set.pos_next_data_set)
                              ELSE f,
                       !.data_sets = Append(@, data_set)]

\* the loop of agcc_read_data_group over its num_data_sets data sets
RECURSIVE ReadDataSets(_, _)
ReadDataSets(r, n) ==
    IF n <= 0 \/ r.err # NoError THEN r
    ELSE Eval(agcc_read_data_set(r), LAMBDA x : ReadDataSets(x, n - 1))

\* agcc_read_data_group: [fp, err, data_group]
agcc_read_data_group(f) ==
    IF ~CanRead(f)
    THEN [fp |-> f, err |-> "Failed to read bytes from stream", data_group |-> <<>>]
    ELSE LET b == Block(f)
             start == [fp |-> hseek(Skip(f), b[2]), err |-> NoError, data_sets |-> <<>>]
         IN  Eval(ReadDataSets(start, b[3]), LAMBDA r :
                [fp |-> IF r.err = NoError /\ b[1] # 0 THEN hseek(r.fp, b[1]) ELSE r.fp,
                 err |-> r.err,
                 data_group |-> <<[pos_next_data_group |-> b[1],
                                   pos_first_data_set |-> b[2],
                                   num_data_sets |-> b[3],
                                   data_sets |-> r.data_sets]>>])

\* agcc_init up to the loop over the data groups: the file header, the
\* generic data header, the seek to the first data group
AgccInitHeader ==
    /\ err = NoError
    /\ agcc.pc = "header"
    /\ IF ~CanRead(fp)
       THEN /\ err' = "Failed to read bytes from stream"
            /\ UNCHANGED agccvars
       ELSE \E b \in {Block(fp)} :
            IF b[1] \div 256 # AGCC_MAGIC
            THEN /\ err' = "AGCC CHP file magic number should be 59"
                 /\ fp' = Skip(fp)
                 /\ UNCHANGED <<agcc, xda_cel>>
            ELSE IF b[1] % 256 # AGCC_VERSION
            THEN /\ err' = "Unsupported AGCC CHP file format version"
                 /\ fp' = Skip(fp)
                 /\ UNCHANGED <<agcc, xda_cel>>
            ELSE /\ fp' = hseek(Skip(fp), b[3])
                 /\ agcc' = [agcc EXCEPT !.pc = "groups",
                                         !.num_data_groups = b[2],
                                         !.pos_first_data_group = b[3]]
                 /\ UNCHANGED <<err, xda_cel>>
    /\ UNCHANGED <<itrvars, procvars, mdlvars>>

\* one iteration of the loop of agcc_init over the data groups
AgccReadDataGroup ==
    /\ err = NoError
    /\ agcc.pc = "groups"
    /\ Len(agcc.data_groups) < agcc.num_data_groups
    /\ \E r \in {agcc_read_data_group(fp)} :
          /\ fp' = r.fp
          /\ err' = r.err
          /\ agcc' = [agcc EXCEPT !.data_groups = @ \o r.data_group]
    /\ UNCHANGED <<itrvars, procvars, mdlvars, xda_cel>>

\* the loop of agcc_init over the data groups is over
GroupsDecoded ==
    /\ err = NoError
    /\ agcc.pc = "groups"
    /\ Len(agcc.data_groups) >= agcc.num_data_groups

\* agcc_init after the loop: the end-of-file test, then the size of the file
AgccInitEnd ==
    /\ GroupsDecoded
    /\ IF ~heof(fp)
       THEN /\ err' = "AGCC CHP reader did not reach the end of file"
            /\ UNCHANGED agccvars
       ELSE /\ fp' = hseek(fp, Len(fp.cells))
            /\ agcc' = [agcc EXCEPT !.pc = "done", !.size = Len(fp.cells)]
            /\ UNCHANGED <<err, xda_cel>>
    /\ UNCHANGED <<itrvars, procvars, mdlvars>>

\* rows of data
Rows == <<0, 0, 0>>

\* the blocks of the data sets j..s of a group, the first of them at p: a
\* header, then the rows, then the next data set
RECURSIVE SetBlocks(_, _, _)
SetBlocks(p, s, j) ==
    IF j > s THEN <<>>
    ELSE <<<<p + 1, p + 2, 1>>, Rows>> \o SetBlocks(p + 2, s, j + 1)

\* the blocks of the data groups i.. of a file, layout[i] being the number
\* of data sets of group i; the last group has no next group
RECURSIVE GroupBlocks(_, _, _)
GroupBlocks(p, layout, i) ==
    IF i > Len(layout) THEN <<>>
    ELSE LET s == layout[i]
             next == p + 1 + 2 * s
         IN  <<<<IF i = Len(layout) THEN 0 ELSE next, p + 1, s>>>>
                 \o SetBlocks(p + 1, s, 1) \o GroupBlocks(next, layout, i + 1)

\* a file as the format lays it out
WellFormed(layout) ==
    <<<<AGCC_MAGIC * 256 + AGCC_VERSION, Len(layout), 1>>>>
        \o GroupBlocks(1, layout, 1)

\* that file, or the file with one defect: bytes after the last data set,
\* the last block missing, another magic number or version, or one word of
\* one block set to zero, to the size of the file or beyond it
Files(layout) ==
    LET c == WellFormed(layout)
        n == Len(c)
    IN  {c, c \o <<Rows>>, SubSeq(c, 1, n - 1)}
        \cup {[c EXCEPT ![1][1] = w] :
                w \in {(AGCC_MAGIC + 1) * 256 + AGCC_VERSION,
                       AGCC_MAGIC * 256 + AGCC_VERSION + 1}}
        \cup {[c EXCEPT ![k][w] = v] :
                k \in 2..n, w \in 1..3, v \in {0, n, n + 1}}

\* the specification of agcc_init alone: no iterator, no process
NoIterator ==
    /\ varitr = [nsmpl |-> 0, nrow |-> 0, probe_set_id |-> <<>>, gts |-> Unwritten]
    /\ data_sets = <<>>
    /\ txt = NoTables
    /\ itr_ret = RetNone
    /\ itr_at = 0

InitAgcc ==
    /\ \E layout \in SeqUpTo(0..MaxSets, MaxGroups) :
          \E c \in Files(layout) : fp = [cells |-> c, pos |-> 0]
    /\ agcc = [NoAgcc EXCEPT !.pc = "header"]
    /\ xda_cel = NoXdaCel
    /\ err = NoError
    /\ NoIterator
    /\ NoProcess
    /\ WithoutModels

NextAgcc == AgccInitHeader \/ AgccReadDataGroup \/ AgccInitEnd

SpecAgcc == InitAgcc /\ [][NextAgcc]_vars

\* C7: once the header and the num_data_groups groups are decoded,
\* agcc_init succeeds if the position is exactly the end of the stream and
\* aborts at any other position
C7_SucceedsOnlyAtEndOfStream ==
    [][GroupsDecoded =>
        IF fp.pos = Len(fp.cells)
        THEN err' = NoError /\ agcc'.pc = "done"
        ELSE err' # NoError /\ agcc'.pc # "done"]_vars

-----------------------------------------------------------------------------
\* The cluster models file on its own: models_init

\* lines of a models file read by one models_init
MaxModelLines == 3

\* the numbers of column j of the line of probe set IdOf(k) with copy number c
ModelColumn(k, c, j) == Cluster(Float(10 * k + j), Float(c), Float(3))

\* the well-formed lines of a file of a format, for two probe sets and the
\* copy numbers 1 and 2: a haploid birdseed line has two columns
ModelLines(format) ==
    {[id |-> IdOf(k), copynumber |-> c,
      cols |-> [j \in 1..(IF format = "birdseed" /\ c = 1 THEN 2 ELSE 3) |->
                   ModelColumn(k, c, j)]] : k \in 1..2, c \in 1..2}

\* a line that lacks its columns
ShortLine == [id |-> IdOf(1), copynumber |-> 2, cols |-> <<>>]

\* the files of up to n lines among Lines(format)
ModelsFiles(Lines(_), n) ==
    UNION {{[pending |-> TRUE, format |-> f, lines |-> l] : l \in SeqUpTo(Lines(f), n)}
           : f \in {"brlmmp", "birdseed"}}

\* a file whose header line is neither of the two
MalformedFile == [pending |-> TRUE, format |-> "malformed", lines |-> <<>>]

\* run: models = models_fname ? models_init(models_fname) : NULL
ModelsInit ==
    /\ err = NoError
    /\ models_fn.pending
    /\ \E r \in {models_init(models_fn)} :
          /\ models' = r.models
          /\ err' = r.err
    /\ models_fn' = [models_fn EXCEPT !.pending = FALSE]
    /\ UNCHANGED <<itrvars, procvars, agccvars, flags>>

InitLoad ==
    /\ models_fn \in ModelsFiles(LAMBDA f : ModelLines(f) \cup {ShortLine}, MaxModelLines)
                        \cup {MalformedFile}
    /\ models = NoModels
    /\ flags = {}
    /\ err = NoError
    /\ NoIterator
    /\ NoProcess
    /\ AgccDecoded

NextLoad == ModelsInit

SpecLoad == InitLoad /\ [][NextLoad]_vars

\* models_init has returned the store
Loaded == models.loaded /\ ~models_fn.pending /\ err = NoError

\* C12: once the store is loaded, the lookup of any identifier of a bucket's
\* map gives the index of a model of that bucket whose probe_set_id is that
\* identifier, also when the file names an identifier on several lines
C12_LookupGivesModelOfThatId ==
    Loaded =>
        \A b \in 1..2 : \A id \in DOMAIN models.probe_set_id[b] :
            LET got == khash_str2int_get(models.probe_set_id[b], id)
            IN  /\ got.ret >= 0
                /\ got.idx + 1 \in 1..Len(models.snps[b])
                /\ models.snps[b][got.idx + 1].probe_set_id = id

-----------------------------------------------------------------------------
\* process with a models file: a run over a calls and a summary table of
\* one sample, with --models and --summary, with or without
\* --adjust-clusters

\* lines of the models file, and rows of the tables, of such a run
MaxMdlLines == 2
MaxMdlRows == 2

\* what strtol makes of the field of a calls line
MdlCalls == {GT_AA, GT_NC}

\* the manifest: two SNPs that can be placed, p and q
MdlManifest ==
    [k \in 1..2 |-> [probe_set_id |-> IdOf(k), chrom_ok |-> TRUE, position |-> 1,
                     strand |-> 0, flank |-> SnpFlank]]

\* a calls table of one sample with the call c on every line
RECURSIVE CallLines(_, _)
CallLines(ids, c) ==
    IF ids = <<>> THEN <<>>
    ELSE <<[id |-> Head(ids), ncols |-> 2, val |-> c]>> \o CallLines(Tail(ids), c)

InitMdl ==
    /\ models_fn \in ModelsFiles(ModelLines, MaxMdlLines)
    /\ models = NoModels
    /\ flags \in {{"SUMMARY_LOADED"}, {"SUMMARY_LOADED", "ADJUST_CLUSTERS"}}
    /\ have_varitr = TRUE
    /\ varitr = [nsmpl |-> 1, nrow |-> 0, probe_set_id |-> <<>>, gts |-> Unwritten]
    /\ data_sets = <<>>
    /\ \E ids \in SeqUpTo(TableIds, MaxMdlRows), c \in MdlCalls :
          txt = [calls |-> Table(CallLines(ids, c)), confidences |-> NoFile,
                 summary |-> Table(Pairs(ids, 1))]
    /\ annot = MdlManifest
    /\ itr_ret = RetNone
    /\ itr_at = 0
    /\ err = NoError
    /\ proc = ProcStart
    /\ sink = NoSink
    /\ printed = <<>>
    /\ AgccDecoded

ProcessMdl == ProcessRecord({<<>>})

NextMdl == ModelsInit \/ ProcessMdl \/ ProcessEnd

SpecMdl == InitMdl /\ [][NextMdl]_vars

\* the file names the identifier on a line of copy number 2, of another copy
\* number, on no line
FileHasDiploid(id) == \E k \in DOMAIN models_fn.lines :
    models_fn.lines[k].id = id /\ models_fn.lines[k].copynumber = 2
FileHasHaploid(id) == \E k \in DOMAIN models_fn.lines :
    models_fn.lines[k].id = id /\ models_fn.lines[k].copynumber # 2
FileHasNoModel(id) == ~FileHasDiploid(id) /\ ~FileHasHaploid(id)

\* the step is an iteration of process, with a models store, that got to
\* its record and neither skipped it nor ended the run
ModelledStep ==
    /\ AtIteration /\ models.loaded
    /\ err' = NoError /\ proc'.idx # NoIdx
    /\ ~CannotBePlaced(annot[proc'.idx])

\* the models other than <<b, k>> are the same before and after the step
OthersUntouched(b, k) ==
    \A b2 \in 1..2 : \A k2 \in 1..Len(models.snps[b2]) :
        <<b2, k2>> # <<b, k>> => models'.snps[b2][k2] = models.snps[b2][k2]

\* C11: a record whose probe set has no model in either bucket is counted
\* in n_no_models and still written, without cluster INFO fields and without
\* BAF/LRR; no model is adjusted and none is projected
C11_NoModelCountedAndWritten ==
    [][(ModelledStep /\ FileHasNoModel(annot[proc'.idx].probe_set_id)) =>
        /\ proc'.n_no_models = proc.n_no_models + 1
        /\ proc'.last = "written"
        /\ sink'.n = sink.n + 1
        /\ sink'.last[1].id = annot[proc'.idx].probe_set_id
        /\ sink'.last[1].info = <<<<>>, <<>>>>
        /\ sink'.last[1].baf_lrr = <<>>
        /\ proc'.snp = <<>>
        /\ models' = models]_vars

\* C11: a record without a model was written while the store holds models
C11_Witness ==
    /\ models.loaded /\ models.snps # <<<<>>, <<>>>>
    /\ proc.last = "written" /\ proc.n_no_models >= 1 /\ proc.snp = <<>>
    /\ sink.last[1].info = <<<<>>, <<>>>> /\ sink.last[1].baf_lrr = <<>>

\* the projection written for the record is that of model <<b, k>> as the
\* step leaves it
ProjectionOf(b, k) ==
    \E dim \in [1..1 -> Intensity] :
        sink'.last[1].baf_lrr =
            <<compute_baf_lrr([i \in 1..1 |-> dim[i].norm_x], [i \in 1..1 |-> dim[i].norm_y],
                              1, models'.snps[b][k], models'.is_birdseed)>>

\* C13: with a model in both buckets the diploid one is adjusted and
\* projected; the haploid one is, only when the identifier has no diploid
\* model
C13_DiploidModelFirst ==
    [][ModelledStep =>
        LET id == annot[proc'.idx].probe_set_id
            b == IF FileHasDiploid(id) THEN 2 ELSE 1
            k == khash_str2int_get(models.probe_set_id[b], id).idx + 1
        IN  ~FileHasNoModel(id) =>
                /\ proc'.snp = <<b, k>>
                /\ (models'.snps[b][k].copynumber = 2) <=> FileHasDiploid(id)
                /\ ProjectionOf(b, k)
                /\ OthersUntouched(b, k)
                /\ "ADJUST_CLUSTERS" \notin flags => models' = models]_vars

\* C13: a record whose probe set has a model in both buckets was written
\* after its diploid model was adjusted
C13_Witness ==
    /\ proc.last = "written" /\ proc.idx # NoIdx /\ "ADJUST_CLUSTERS" \in flags
    /\ FileHasDiploid(annot[proc.idx].probe_set_id)
    /\ FileHasHaploid(annot[proc.idx].probe_set_id)
    /\ proc.snp # <<>> /\ proc.snp[1] = 2
    /\ models # models_init([models_fn EXCEPT !.pending = TRUE]).models

\* C15: with --adjust-clusters, the model of a written record is, after the
\* step, the prior of the models file adjusted with the calls and the
\* intensities of that record; the projection written is that of the
\* adjusted model; and no other model changes
C15_AdjustedFromPriorBeforeProjection ==
    [][(ModelledStep /\ "ADJUST_CLUSTERS" \in flags /\ proc'.snp # <<>>) =>
        LET b == proc'.snp[1]
            k == proc'.snp[2]
            prior == models_init([models_fn EXCEPT !.pending = TRUE]).models.snps[b][k]
        IN  /\ \E dim \in [1..1 -> Intensity] :
                 models'.snps[b][k] =
                    adjust_clusters(varitr'.gts,
                        [i \in 1..1 |-> IF models.is_birdseed THEN dim[i].norm_x ELSE dim[i].delta],
                        [i \in 1..1 |-> IF models.is_birdseed THEN dim[i].norm_y ELSE dim[i].size],
                        1, prior)
            /\ ProjectionOf(b, k)
            /\ OthersUntouched(b, k)]_vars

-----------------------------------------------------------------------------
\* adjust_clusters and compute_baf_lrr on their own: one model loaded from
\* a file of one line, the calls and the intensities of NSmpl samples

\* the mean of the first column of the line; column j holds xm = p + j - 1,
\* ym = j, k = 3
AdjPriors == {10, -3}
AdjLine(format, c, p) ==
    [id |-> IdOf(1), copynumber |-> c,
     cols |-> [j \in 1..(IF format = "birdseed" /\ c = 1 THEN 2 ELSE 3) |->
                  Cluster(Float(p + j - 1), Float(j), Float(3))]]

\* x[i] and y[i] of a sample
AdjPoints == {<<Float(8), Float(1)>>, <<Float(12), Float(5)>>}

\* the snp_t the two functions are given, as <<bucket, index>> of the store
TheSnp == <<IF models_fn.lines[1].copynumber = 2 THEN 2 ELSE 1, 1>>
SnpOf(m) == m.snps[TheSnp[1]][TheSnp[2]]

\* the store as models_init leaves it
AsLoaded == models_init([models_fn EXCEPT !.pending = TRUE]).models

InitAdj ==
    /\ \E f \in {"brlmmp", "birdseed"}, c \in 1..2, p \in AdjPriors :
          models_fn = [pending |-> TRUE, format |-> f, lines |-> <<AdjLine(f, c, p)>>]
    /\ models = NoModels
    /\ flags = {"SUMMARY_LOADED", "ADJUST_CLUSTERS"}
    /\ \E g \in [1..NSmpl -> {GT_NC, GT_AA, GT_AB, GT_BB}], xy \in [1..NSmpl -> AdjPoints] :
          varitr = [nsmpl |-> NSmpl, nrow |-> 0, probe_set_id |-> IdOf(1), gts |-> g,
                    x |-> [i \in 1..NSmpl |-> xy[i][1]],
                    y |-> [i \in 1..NSmpl |-> xy[i][2]]]
    /\ data_sets = <<>>
    /\ txt = NoTables
    /\ itr_ret = RetNone
    /\ itr_at = 0
    /\ err = NoError
    /\ NoProcess
    /\ AgccDecoded

\* adjust_clusters(gts, x, y, nsmpl, snp) on the model as loaded
AdjustClusters ==
    /\ models.loaded /\ models = AsLoaded
    /\ \E s \in {adjust_clusters(varitr.gts, varitr.x, varitr.y, varitr.nsmpl, SnpOf(models))} :
          models' = [models EXCEPT !.snps[TheSnp[1]][TheSnp[2]] = s]
    /\ UNCHANGED <<itrvars, procvars, agccvars, models_fn, flags, err>>

\* compute_baf_lrr(norm_x, norm_y, nsmpl, snp, is_birdseed, baf, lrr)
ComputeBafLrr ==
    /\ models.loaded
    /\ \E out \in {compute_baf_lrr(varitr.x, varitr.y, varitr.nsmpl, SnpOf(models),
                                  models.is_birdseed)} :
          sink' = [sink EXCEPT !.last = <<[baf_lrr |-> out]>>]
    /\ UNCHANGED <<itrvars, have_varitr, annot, proc, printed, err, agccvars, mdlvars>>

NextAdj == ModelsInit \/ AdjustClusters \/ ComputeBafLrr

SpecAdj == InitAdj /\ [][NextAdj]_vars

\* the samples called as the genotype code, and the sum of v over them
CalledAs(code) == {i \in 1..varitr.nsmpl : varitr.gts[i] = code}
RECURSIVE SumOver(_, _)
SumOver(v, S) ==
    IF S = {} THEN Float(0)
    ELSE LET i == CHOOSE i \in S : TRUE IN FAdd(v[i], SumOver(v, S \ {i}))

\* (0.2 * prior + sum) / (0.2 + count), as (prior + 5 * sum) / (1 + 5 * count)
PosteriorMean(prior, v, code) ==
    FDiv(FAdd(prior, FMul(Float(5), SumOver(v, CalledAs(code)))),
         Float(1 + 5 * Cardinality(CalledAs(code))))

\* the store holds the model adjusted from the one loaded
Adjusted == models.loaded /\ models # AsLoaded

Projected == sink.last # <<>>

\* C16: for a model of copy number 1 the projection takes the AB cluster
\* at the midpoint, theta (AA + BB) / 2 and r (AA + BB) / 2; it changes
\* neither the model nor the intensities; and the values written change
\* from one projection to the next only when the model was adjusted in
\* between
C16_HaploidMidpoint ==
    [][sink' # sink =>
        /\ models' = models /\ varitr' = varitr
        /\ SnpOf(models).copynumber = 1 =>
              \A i \in 1..varitr.nsmpl :
                  LET out == sink'.last[1].baf_lrr[i]
                      snp == SnpOf(models)
                      b == models.is_birdseed
                  IN  /\ out.ab_theta = HalfSum(Theta(snp.aa, b), Theta(snp.bb, b))
                      /\ out.ab_r = HalfSum(R(snp.aa, b), R(snp.bb, b))
                      /\ out.aa_theta = Theta(snp.aa, b) /\ out.bb_theta = Theta(snp.bb, b)
                      /\ out.aa_r = R(snp.aa, b) /\ out.bb_r = R(snp.bb, b)
        /\ Projected => SnpOf(models) # SnpOf(AsLoaded)]_vars

\* C16: a birdseed model of copy number 1, whose AB cluster is NaN, was
\* projected
C16_Witness ==
    /\ Projected /\ models.is_birdseed
    /\ SnpOf(models).copynumber = 1 /\ IsNaN(SnpOf(models).ab.xm)
    /\ IsFloat(sink.last[1].baf_lrr[1].ab_r)
    /\ ~IsNaN(sink.last[1].baf_lrr[1].ab_r)

-----------------------------------------------------------------------------
\* The first lines of the tables: varitr_init_txt, then varitr_loop

\* a table with its first line that is no comment, <<>> for an empty file:
\* the first field of that line and the number of its fields
MaxHdrLines == 1
Headers == [first : {"probeset_id"}, ncols : 2..(1 + NSmpl)]
             \cup {[first |-> "id", ncols |-> 2]}
HdrTable(header, lines) == [open |-> TRUE, header |-> header, lines |-> lines, pos |-> 0]

\* lines of ncols fields with the identifiers ids
HdrLines(ids, ncols) ==
    [k \in 1..Len(ids) |-> [id |-> ids[k], ncols |-> ncols, val |-> GT_AA]]
HdrPairs(ids, ncols) ==
    [k \in 1..(2 * Len(ids)) |->
        [id |-> ids[(k + 1) \div 2] \o (IF k % 2 = 1 THEN <<"-", "A">> ELSE <<"-", "B">>),
         ncols |-> ncols]]
HdrTables(Lines(_, _)) ==
    {HdrTable(<<h>>, Lines(ids, n)) :
        h \in Headers, ids \in SeqUpTo(TableIds, MaxHdrLines), n \in 2..(1 + NSmpl)}
        \cup {HdrTable(<<>>, <<>>), NoFile}

\* unheader and the test of the first field, for one table
HeaderError(f, msg) ==
    IF ~f.open THEN NoError
    ELSE IF f.header = <<>> THEN "Empty file"
    ELSE IF f.header[1].first # "probeset_id" THEN msg
    ELSE NoError

\* varitr_init_txt: nsmpl is taken from the first table there is, calls,
\* then confidences, then summary: [varitr, err]
varitr_init_txt(t) ==
    LET e1 == HeaderError(t.calls, "Malformed first line from calls file")
        e2 == HeaderError(t.confidences, "Malformed first line from confidences file")
        e3 == HeaderError(t.summary, "Malformed first line from summary file")
        e == IF e1 # NoError THEN e1 ELSE IF e2 # NoError THEN e2 ELSE e3
        f == IF t.calls.open THEN t.calls
             ELSE IF t.confidences.open THEN t.confidences ELSE t.summary
        n == IF e = NoError /\ f.open THEN f.header[1].ncols - 1 ELSE 0
    IN  [varitr |-> [nsmpl |-> n, nrow |-> 0, probe_set_id |-> <<>>, gts |-> Unwritten],
         err |-> e]

VaritrInitTxt ==
    /\ err = NoError /\ ~have_varitr
    /\ \E r \in {varitr_init_txt(txt)} :
          /\ varitr' = r.varitr
          /\ err' = r.err
          /\ have_varitr' = (r.err = NoError)
    /\ UNCHANGED <<data_sets, txt, itr_ret, itr_at, annot, proc, sink, printed>>
    /\ UNCHANGED <<agccvars, mdlvars>>

VaritrLoopAfterInit == have_varitr /\ CallVaritrLoopTxt

InitHdr ==
    /\ have_varitr = FALSE
    /\ varitr = [nsmpl |-> 0, nrow |-> 0, probe_set_id |-> <<>>, gts |-> Unwritten]
    /\ \E c \in HdrTables(HdrLines), f \in HdrTables(HdrLines), m \in HdrTables(HdrPairs) :
          /\ c.open \/ f.open \/ m.open
          /\ txt = [calls |-> c, confidences |-> f, summary |-> m]
    /\ data_sets = <<>>
    /\ itr_ret = RetNone
    /\ itr_at = 0
    /\ err = NoError
    /\ annot = <<>>
    /\ proc = [ProcStart EXCEPT !.pc = "off"]
    /\ sink = NoSink
    /\ printed = <<>>
    /\ AgccDecoded
    /\ WithoutModels

NextHdr == VaritrInitTxt \/ VaritrLoopAfterInit

SpecHdr == InitHdr /\ [][NextHdr]_vars

\* the tables supplied, and whether their first lines name the same number
\* of samples
Supplied == {f \in {txt.calls, txt.confidences, txt.summary} : f.open}
SameSampleCounts ==
    \A a, b \in Supplied : a.header # <<>> /\ b.header # <<>> =>
        a.header[1].ncols = b.header[1].ncols

\* C17: when the first lines of the tables supplied name different numbers
\* of samples the run is aborted: the iterator neither yields a row nor
\* reaches the end of the tables
C17_DifferentCountsAbort ==
    (have_varitr /\ itr_ret \in {RetRow, RetEnd}) => SameSampleCounts

-----------------------------------------------------------------------------
\* The XDA CEL decoder: xda_cel_init
\*
\* The file is a sequence of units and a position counts the units before
\* it.  A unit is what the read that takes it makes of it: a 32-bit word of
\* the header, a character of a string, or an element of one of the four
\* arrays (a Cell, an Entry, a SubGrid).

\* magic number and version of an XDA CEL file
XDA_MAGIC == 64
XDA_VERSION == 4

\* rows and columns, characters of the header string, elements of the
\* masked, outlier and sub-grid arrays
MaxDim == 2
MaxStr == 1
MaxEntries == 1

\* read_bytes(fp, buffer, n units): [fp, err, data]
ReadUnits(f, n) ==
    IF f.pos + n > Len(f.cells)
    THEN [fp |-> [f EXCEPT !.pos = Len(f.cells)],
          err |-> "Failed to read bytes from stream", data |-> <<>>]
    ELSE [fp |-> [f EXCEPT !.pos = f.pos + n], err |-> NoError,
          data |-> SubSeq(f.cells, f.pos + 1, f.pos + n)]

\* a length word and the characters it counts: [fp, err, data], data the
\* length
ReadCounted(f) ==
    Eval(ReadUnits(f, 1), LAMBDA n :
        IF n.err # NoError THEN n
        ELSE Eval(ReadUnits(n.fp, n.data[1]), LAMBDA c :
                [fp |-> c.fp, err |-> c.err, data |-> n.data]))

\* read k of the header of xda_cel_init after magic and version: words
\* 1..3 are num_rows, num_cols, num_cells, reads 4..6 the three strings,
\* words 7..10 cell_margin, num_outlier_cells, num_masked_cells,
\* num_sub_grids
XdaHeaderRead(f, k) == IF k \in 4..6 THEN ReadCounted(f) ELSE ReadUnits(f, 1)

\* read k of the four arrays: cells, masked_entries, outlier_entries,
\* sub_grids, in the lengths hdr declares
XdaArrayRead(hdr, f, k) ==
    LET n == <<hdr[3], hdr[9], hdr[8], hdr[10]>>
    IN  Eval(ReadUnits(f, n[k]), LAMBDA x : [x EXCEPT !.data = <<<<x.data>>>>])

\* the reads 1..n in turn, of the header when hdr is <<>> and of the arrays
\* otherwise, until one fails: [fp, err, data], data the values read so far
RECURSIVE ReadAll(_, _, _)
ReadAll(r, n, hdr) ==
    IF n = 0 THEN r
    ELSE Eval(ReadAll(r, n - 1, hdr), LAMBDA a :
            IF a.err # NoError THEN a
            ELSE Eval(IF hdr = <<>> THEN XdaHeaderRead(a.fp, n)
                      ELSE XdaArrayRead(hdr, a.fp, n),
                      LAMBDA x : [fp |-> x.fp, err |-> x.err, data |-> a.data \o x.data]))

\* a pointer that calloc left NULL
Null == <<>>

\* xda_cel_init(fn, fp, flags): [xda_cel, fp, err]
xda_cel_init(f, fl) ==
    LET Ended(x, msg, cel) ==
            [xda_cel |-> cel @@ [pc |-> "done", flags |-> fl], fp |-> x, err |-> msg]
        XdaFields(ver, h, a) ==
            [version |-> ver, num_rows |-> h[1], num_cols |-> h[2], num_cells |-> h[3],
             n_header |-> h[4], n_algorithm |-> h[5], n_parameters |-> h[6],
             cell_margin |-> h[7], num_outlier_cells |-> h[8],
             num_masked_cells |-> h[9], num_sub_grids |-> h[10],
             cells |-> a[1], masked_entries |-> a[2], outlier_entries |-> a[3],
             sub_grids |-> a[4]]
        NoArrays == <<Null, Null, Null, Null>>
    IN  Eval(ReadUnits(f, 1), LAMBDA m :
        IF m.err # NoError THEN Ended(m.fp, m.err, <<>>)
        ELSE IF m.data[1] # XDA_MAGIC
        THEN Ended(m.fp, "XDA CEL file magic number should be 64", <<>>)
        ELSE Eval(ReadUnits(m.fp, 1), LAMBDA v :
        IF v.err # NoError THEN Ended(v.fp, v.err, <<>>)
        ELSE IF v.data[1] # XDA_VERSION
        THEN Ended(v.fp, "Unsupported XDA CEL file format version", <<>>)
        ELSE Eval(ReadAll([fp |-> v.fp, err |-> NoError, data |-> <<>>], 10, <<>>),
                  LAMBDA h :
        IF h.err # NoError THEN Ended(h.fp, h.err, <<>>)
        ELSE IF fl # 0 THEN Ended(h.fp, NoError, XdaFields(v.data[1], h.data, NoArrays))
        ELSE Eval(ReadAll([fp |-> h.fp, err |-> NoError, data |-> <<>>], 4, h.data),
                  LAMBDA a :
        IF a.err # NoError
        THEN Ended(a.fp, a.err, XdaFields(v.data[1], h.data, a.data \o SubSeq(NoArrays, Len(a.data) + 1, 4)))
        ELSE IF ~heof(a.fp)
        THEN Ended(a.fp, "XDA CEL reader did not reach the end of file",
                   XdaFields(v.data[1], h.data, a.data))
        ELSE Ended(a.fp, NoError, XdaFields(v.data[1], h.data, a.data))))))

XdaCelInit ==
    /\ err = NoError
    /\ xda_cel.pc = "call"
    /\ \E r \in {xda_cel_init(fp, xda_cel.flags)} :
          /\ xda_cel' = r.xda_cel
          /\ fp' = r.fp
          /\ err' = r.err
    /\ UNCHANGED <<itrvars, procvars, mdlvars, agcc>>

\* n units
Units(n) == [i \in 1..n |-> 0]

\* a file of the layout, with the header that declares it: rows, columns,
\* cells, the length of the header string, the numbers of outlier, masked
\* and sub-grid entries
XdaFile(rows, cols, cells, n_header, outliers, masked, sub_grids) ==
    <<XDA_MAGIC, XDA_VERSION, rows, cols, cells>>
        \o <<n_header>> \o Units(n_header) \o <<0>> \o <<1>> \o Units(1)
        \o <<0, outliers, masked, sub_grids>>
        \o Units(cells) \o Units(masked) \o Units(outliers) \o Units(sub_grids)

\* the files: of every layout, as declared, with one unit more, with one
\* unit less; and with another magic number or version
XdaFiles ==
    LET declared ==
            {XdaFile(r, c, n, h, o, m, g) :
                r \in 0..MaxDim, c \in 0..MaxDim, n \in 0..(MaxDim * MaxDim),
                h \in 0..MaxStr, o \in 0..MaxEntries, m \in 0..MaxEntries,
                g \in 0..MaxEntries}
        one == XdaFile(1, 1, 1, 0, 0, 0, 0)
    IN  declared
        \cup {Append(c, 0) : c \in declared}
        \cup {SubSeq(c, 1, Len(c) - 1) : c \in declared}
        \cup {[one EXCEPT ![1] = XDA_MAGIC + 1], [one EXCEPT ![2] = XDA_VERSION - 1]}

InitXda ==
    /\ \E c \in XdaFiles : fp = [cells |-> c, pos |-> 0]
    /\ \E fl \in 0..1 : xda_cel = [pc |-> "call", flags |-> fl]
    /\ agcc = NoAgcc
    /\ err = NoError
    /\ NoIterator
    /\ NoProcess
    /\ WithoutModels

NextXda == XdaCelInit

SpecXda == InitXda /\ [][NextXda]_vars

\* xda_cel_init returned an xda_cel_t
XdaDecoded == xda_cel.pc = "done" /\ err = NoError

\* where the header of the file ends
XdaHeaderEnd == 12 + xda_cel.n_header + xda_cel.n_algorithm + xda_cel.n_parameters

\* C18: a decode with flags 0 succeeds only with the four arrays read in
\* the lengths the header declares and the position at the end of the
\* file; a decode with flags set reads and allocates none of the four arrays
C18_FullDecodeEndsAtEof ==
    XdaDecoded =>
        IF xda_cel.flags = 0
        THEN /\ fp.pos = Len(fp.cells)
             /\ xda_cel.cells = <<Units(xda_cel.num_cells)>>
             /\ xda_cel.masked_entries = <<Units(xda_cel.num_masked_cells)>>
             /\ xda_cel.outlier_entries = <<Units(xda_cel.num_outlier_cells)>>
             /\ xda_cel.sub_grids = <<Units(xda_cel.num_sub_grids)>>
             /\ fp.pos = XdaHeaderEnd + xda_cel.num_cells + xda_cel.num_masked_cells
                            + xda_cel.num_outlier_cells + xda_cel.num_sub_grids
        ELSE /\ fp.pos = XdaHeaderEnd
             /\ xda_cel.cells = Null /\ xda_cel.masked_entries = Null
             /\ xda_cel.outlier_entries = Null /\ xda_cel.sub_grids = Null

\* C18: a decode with flags 0 of a file with elements in each of the four
\* arrays succeeded
C18_Witness ==
    /\ XdaDecoded /\ xda_cel.flags = 0
    /\ xda_cel.num_cells > 0 /\ xda_cel.num_masked_cells > 0
    /\ xda_cel.num_outlier_cells > 0 /\ xda_cel.num_sub_grids > 0
    /\ fp.pos = Len(fp.cells)

\* C19: the xda_cel_t of a successful decode has num_cells = num_rows *
\* num_cols
C19_CellCountIsRowsTimesCols ==
    XdaDecoded => xda_cel.num_cells = xda_cel.num_rows * xda_cel.num_cols

-----------------------------------------------------------------------------
\* The parameters of a data header or data set: agcc_read_parameters
\*
\* Here a unit of the file is a string with its length word.  A string is
\* a sequence of pieces of text, the empty sequence when the length is 0.

\* parameters of a header
MaxParams == 2

\* the MIME strings of agcc_read_parameters in the order of its tests; the
\* type of entry k is k - 1, BYTE to WSTRING
MimeTable ==
    <<"text/x-calvin-integer-8", "text/x-calvin-unsigned-integer-8",
      "text/x-calvin-integer-16", "text/x-calvin-unsigned-integer-16",
      "text/x-calvin-integer-32", "text/x-calvin-unsigned-integer-32",
      "text/x-calvin-float", "text/ascii", "text/plain">>

\* the first 38 characters of the names that are dropped
DropPrefix == "affymetrix-algorithm-param-apt-opt-cel"

\* read_string16(fp, &buffer) and read_string8(fp, &buffer): [fp, err,
\* buffer, len]; the buffer is NULL when the length is 0
read_string16(f) ==
    IF ~CanRead(f)
    THEN [fp |-> f, err |-> "Failed to read bytes from stream", buffer |-> Null, len |-> 0]
    ELSE [fp |-> Skip(f), err |-> NoError,
          buffer |-> IF Block(f) = <<>> THEN Null ELSE <<Block(f)>>,
          len |-> Len(Block(f))]
read_string8(f) == read_string16(f)

\* what a call of wcscmp or wcsncmp with a NULL string can do: end the run
\* with a fault, or return any value
Fault == "Segmentation fault"

\* what the chain of wcscmp does with a MIME string: it gives a type, or
\* ends in error(); for NULL every call is undefined
MimeTypeOf(mime_type) ==
    LET Typed(S) == {[how |-> "type", type |-> k - 1] : k \in S}
        known == {k \in DOMAIN MimeTable :
                    mime_type # Null /\ mime_type[1] = <<MimeTable[k]>>}
    IN  IF mime_type = Null
        THEN {[how |-> Fault, type |-> 0], [how |-> "error", type |-> 0]}
                \cup Typed(DOMAIN MimeTable)
        ELSE IF known # {} THEN Typed(known)
        ELSE {[how |-> "error", type |-> 0]}

\* wcsncmp(name, prefix, 38) == 0
HasDropPrefix(name) ==
    IF name = Null
    THEN {[how |-> Fault, is |-> FALSE], [how |-> "value", is |-> TRUE],
          [how |-> "value", is |-> FALSE]}
    ELSE {[how |-> "value", is |-> name[1][1] = DropPrefix]}

\* agcc_read_parameters(parameter, fp, flags): the outcomes [fp, err,
\* parameter], parameter <<>> when the run ended
agcc_read_parameters(f, fl) ==
    LET nm == read_string16(f)
        vl == read_string8(nm.fp)
        mt == read_string16(vl.fp)
        Ended(x, msg) == [fp |-> x, err |-> msg, parameter |-> <<>>]
        Read(t) == [name |-> nm.buffer, value |-> vl.buffer, n_value |-> vl.len,
                    mime_type |-> mt.buffer, type |-> t]
        Dropped(t) == [name |-> Null, value |-> Null, n_value |-> 0,
                       mime_type |-> Null, type |-> t]
    IN  IF nm.err # NoError THEN {Ended(nm.fp, nm.err)}
        ELSE IF vl.err # NoError THEN {Ended(vl.fp, vl.err)}
        ELSE IF mt.err # NoError THEN {Ended(mt.fp, mt.err)}
        ELSE UNION {
            IF t.how = Fault THEN {Ended(mt.fp, Fault)}
            ELSE IF t.how = "error" THEN {Ended(mt.fp, "MIME type not allowed")}
            ELSE IF fl = 0
            THEN {[fp |-> mt.fp, err |-> NoError, parameter |-> <<Read(t.type)>>]}
            ELSE {IF d.how = Fault THEN Ended(mt.fp, Fault)
                  ELSE [fp |-> mt.fp, err |-> NoError,
                        parameter |-> <<IF d.is THEN Dropped(t.type) ELSE Read(t.type)>>] :
                    d \in HasDropPrefix(nm.buffer)} :
            t \in MimeTypeOf(mt.buffer)}

\* one iteration of the loop of agcc_read_data_header over its parameters
AgccReadParameters ==
    /\ err = NoError
    /\ agcc.pc = "parameters"
    /\ Len(agcc.data_header.parameters) < agcc.data_header.n_parameters
    /\ \E r \in agcc_read_parameters(fp, agcc.flags) :
          /\ fp' = r.fp
          /\ err' = r.err
          /\ agcc' = [agcc EXCEPT !.data_header.parameters = @ \o r.parameter]
    /\ UNCHANGED <<itrvars, procvars, mdlvars, xda_cel>>

\* the three strings of a parameter, all of them for the first parameter of
\* a header and a few for the others
ParNames == {<<>>, <<<<"x">>>>, <<<<DropPrefix>>>>, <<<<DropPrefix, "-x">>>>}
ParValues == {<<>>, <<<<"v">>>>}
ParMimes == {<<>>, <<<<"text/x-calvin-double">>>>} \cup {<<<<MimeTable[k]>>>> : k \in DOMAIN MimeTable}
ParFirst == {n \o v \o m : n \in {IF x = <<>> THEN <<<<>>>> ELSE x : x \in ParNames},
                           v \in {IF x = <<>> THEN <<<<>>>> ELSE x : x \in ParValues},
                           m \in {IF x = <<>> THEN <<<<>>>> ELSE x : x \in ParMimes}}
ParOther == {<<<<"y">>, <<"v">>, m>> : m \in {<<>>, <<"text/x-calvin-double">>, <<MimeTable[1]>>}}

RECURSIVE ParStreams(_)
ParStreams(n) ==
    IF n = 0 THEN {<<>>}
    ELSE IF n = 1 THEN ParFirst
    ELSE {c \o p : c \in ParStreams(n - 1), p \in ParOther}

InitPar ==
    /\ \E n \in 0..MaxParams : \E c \in ParStreams(n) :
          /\ \E d \in {c, SubSeq(c, 1, Len(c) - 1)} : fp = [cells |-> d, pos |-> 0]
          /\ \E fl \in 0..1 :
                agcc = [pc |-> "parameters", flags |-> fl,
                        data_header |-> [n_parameters |-> n, parameters |-> <<>>]]
    /\ xda_cel = NoXdaCel
    /\ err = NoError
    /\ NoIterator
    /\ NoProcess
    /\ WithoutModels

NextPar == AgccReadParameters

SpecPar == InitPar /\ [][NextPar]_vars

\* the MIME string of the parameter that the next call decodes is in the
\* file and is none of the nine of the table
UnknownMimeNext ==
    /\ err = NoError /\ agcc.pc = "parameters"
    /\ Len(agcc.data_header.parameters) < agcc.data_header.n_parameters
    /\ fp.pos + 3 <= Len(fp.cells)
    /\ \A k \in DOMAIN MimeTable : fp.cells[fp.pos + 3] # <<MimeTable[k]>>

\* C20: the decode of a parameter whose MIME string is none of the nine of
\* the table ends the run with the error "MIME type not allowed", also when
\* the string has length 0 and when the name has the prefix that is dropped
\* and flags is set
C20_UnknownMimeAborts ==
    [][UnknownMimeNext => err' = "MIME type not allowed"]_vars

-----------------------------------------------------------------------------
\* The tree of data headers: agcc_read_data_header
\*
\* A unit of the file is a string with its length word, or a 32-bit word.

\* parameters of one header of the tree, and levels of parents above the
\* first header
MaxTreeParams == 2
MaxDepth == 2

\* parameters[i] is the i-th parameter read
Stored_first(parameters, parameter) == parameter \o parameters
Stored(parameters, parameter) == parameters \o parameter

\* the loop over n parameters, on a set of outcomes [fp, err, parameters]
RECURSIVE ReadParameters(_, _, _)
ReadParameters(S, n, fl) ==
    IF n <= 0 THEN S
    ELSE ReadParameters(
            UNION {IF a.err # NoError THEN {a}
                   ELSE {[fp |-> r.fp, err |-> r.err,
                          parameters |-> Stored(a.parameters, r.parameter)] :
                            r \in agcc_read_parameters(a.fp, fl)} : a \in S},
            n - 1, fl)

\* agcc_read_data_header(data_header, fp, flags): the outcomes [fp, err,
\* data_header], and the loop over n parents on a set of outcomes [fp, err,
\* parents]
RECURSIVE agcc_read_data_header(_, _)
RECURSIVE ReadParents(_, _, _)
ReadParents(S, n, fl) ==
    IF n <= 0 THEN S
    ELSE ReadParents(
            UNION {IF a.err # NoError THEN {a}
                   ELSE {[fp |-> r.fp, err |-> r.err,
                          parents |-> a.parents \o r.data_header] :
                            r \in agcc_read_data_header(a.fp, fl)} : a \in S},
            n - 1, fl)

agcc_read_data_header(f, fl) ==
    LET Ended(x, msg) == [fp |-> x, err |-> msg, data_header |-> <<>>]
        Buffer(str) == IF str = <<>> THEN Null ELSE <<str>>
    IN  Eval(ReadUnits(f, 5), LAMBDA h :
        IF h.err # NoError THEN {Ended(h.fp, h.err)}
        ELSE UNION {
            IF a.err # NoError THEN {Ended(a.fp, a.err)}
            ELSE Eval(ReadUnits(a.fp, 1), LAMBDA n :
                IF n.err # NoError THEN {Ended(n.fp, n.err)}
                ELSE {IF b.err # NoError THEN Ended(b.fp, b.err)
                      ELSE [fp |-> b.fp, err |-> NoError,
                            data_header |->
                                <<[data_type_identifier |-> Buffer(h.data[1]),
                                   guid |-> Buffer(h.data[2]),
                                   datetime |-> Buffer(h.data[3]),
                                   locale |-> Buffer(h.data[4]),
                                   n_parameters |-> h.data[5],
                                   parameters |-> a.parameters,
                                   n_parents |-> n.data[1],
                                   parents |-> b.parents]>>] :
                        b \in ReadParents({[fp |-> n.fp, err |-> NoError, parents |-> <<>>]},
                                          n.data[1], fl)}) :
            a \in ReadParameters({[fp |-> h.fp, err |-> NoError, parameters |-> <<>>]},
                                 h.data[5], fl)})

\* agcc_init's call for the data header of the file
AgccReadDataHeader ==
    /\ err = NoError
    /\ agcc.pc = "data_header"
    /\ \E r \in agcc_read_data_header(fp, agcc.flags) :
          /\ fp' = r.fp
          /\ err' = r.err
          /\ agcc' = [agcc EXCEPT !.pc = "header_read", !.data_header = r.data_header]
    /\ UNCHANGED <<itrvars, procvars, mdlvars, xda_cel>>

\* the units of a parameter and of a header with its parents
TreeParams ==
    {<<<<"x">>, <<"v">>, <<MimeTable[1]>>>>, <<<<DropPrefix, "-x">>, <<>>, <<MimeTable[9]>>>>}
RECURSIVE Flat(_)
Flat(q) == IF q = <<>> THEN <<>> ELSE Head(q) \o Flat(Tail(q))
HeaderUnits(params, parents) ==
    <<<<"type">>, <<"guid">>, <<>>, <<"locale">>, Len(params)>> \o Flat(params)
        \o <<Len(parents)>> \o Flat(parents)
LeafHeader == HeaderUnits(<<<<<<"y">>, <<"v">>, <<MimeTable[8]>>>>>>, <<>>)

\* the headers with at most d levels of parents: the parents have one
\* parameter or none, the first header up to MaxTreeParams
RECURSIVE ParentTrees(_)
ParentTrees(d) ==
    LET above == IF d = 0 THEN {<<>>}
                 ELSE {<<>>} \cup UNION {{<<t>>, <<t, LeafHeader>>} : t \in ParentTrees(d - 1)}
    IN  {HeaderUnits(ps, up) : ps \in SeqUpTo(TreeParams, 1), up \in above}
HeaderTrees(d) ==
    LET above == IF d = 0 THEN {<<>>}
                 ELSE {<<>>} \cup UNION {{<<t>>, <<t, LeafHeader>>} : t \in ParentTrees(d - 1)}
    IN  {HeaderUnits(ps, up) : ps \in SeqUpTo(TreeParams, MaxTreeParams), up \in above}

InitTree ==
    /\ \E c \in HeaderTrees(MaxDepth) :
          \E d \in {c, SubSeq(c, 1, Len(c) - 1)} : fp = [cells |-> d, pos |-> 0]
    /\ \E fl \in 0..1 : agcc = [pc |-> "data_header", flags |-> fl, data_header |-> <<>>]
    /\ xda_cel = NoXdaCel
    /\ err = NoError
    /\ NoIterator
    /\ NoProcess
    /\ WithoutModels

NextTree == AgccReadDataHeader

SpecTree == InitTree /\ [][NextTree]_vars

\* the units a decoded header came from, a parameter that was dropped
\* counting as its three units; the parameters of a tree, the header's
\* first; the levels of parents of a header
RECURSIVE AsUnits(_)
AsUnits(h) ==
    LET Str(b) == IF b = Null THEN <<>> ELSE b[1]
        Par(q) == <<Str(q.name), Str(q.value), Str(q.mime_type)>>
    IN  <<Str(h.data_type_identifier), Str(h.guid), Str(h.datetime), Str(h.locale),
          h.n_parameters>>
            \o Flat([k \in 1..Len(h.parameters) |-> Par(h.parameters[k])])
            \o <<h.n_parents>>
            \o Flat([k \in 1..Len(h.parents) |-> AsUnits(h.parents[k])])
RECURSIVE TypesIn(_)
TypesIn(h) ==
    [k \in 1..Len(h.parameters) |-> h.parameters[k].type]
        \o Flat([k \in 1..Len(h.parents) |-> TypesIn(h.parents[k])])
RECURSIVE CountsHold(_)
CountsHold(h) ==
    /\ Len(h.parameters) = h.n_parameters
    /\ Len(h.parents) = h.n_parents
    /\ \A k \in 1..Len(h.parents) : CountsHold(h.parents[k])
RECURSIVE DepthOf(_)
DepthOf(h) ==
    IF h.parents = <<>> THEN 0
    ELSE 1 + DepthOf(h.parents[CHOOSE k \in 1..Len(h.parents) :
                        \A j \in 1..Len(h.parents) :
                            DepthOf(h.parents[j]) <= DepthOf(h.parents[k])])

\* a header as the decode with flags set leaves it: the parameters whose
\* names have the prefix are emptied, in their places
RECURSIVE Emptied(_)
Emptied(h) ==
    [h EXCEPT !.parameters =
                 [k \in 1..Len(@) |->
                     IF @[k].name # Null /\ @[k].name[1][1] = DropPrefix
                     THEN [name |-> Null, value |-> Null, n_value |-> 0,
                           mime_type |-> Null, type |-> @[k].type]
                     ELSE @[k]],
              !.parents = [k \in 1..Len(@) |-> Emptied(@[k])]]

TreeDecoded == agcc.pc = "header_read" /\ err = NoError

\* C21: the decode of a well-formed tree of headers ends; each header
\* holds the n_parameters parameters that follow it in the file, in their
\* order, then its n_parents parents, each decoded once; and the tree holds
\* as many parameters as the file
C21_HeaderTreeDecoded ==
    TreeDecoded =>
        LET h == agcc.data_header[1]
        IN  /\ fp.pos = Len(fp.cells)
            /\ CountsHold(h)
            /\ \E r \in agcc_read_data_header([fp EXCEPT !.pos = 0], 0) :
                  /\ r.err = NoError
                  /\ AsUnits(r.data_header[1]) = fp.cells
                  /\ h = IF agcc.flags = 0 THEN r.data_header[1]
                         ELSE Emptied(r.data_header[1])

\* C21: a tree with two levels of parents and parameters at each level was
\* decoded
C21_Witness ==
    /\ TreeDecoded
    /\ DepthOf(agcc.data_header[1]) = 2
    /\ Len(agcc.data_header[1].parameters) >= 2
    /\ Len(TypesIn(agcc.data_header[1])) > Len(agcc.data_header[1].parameters)

-----------------------------------------------------------------------------
\* The data groups and data sets of a container, unit by unit:
\* agcc_read_data_group, agcc_read_data_set
\*
\* As for the parameters, the file is a sequence of units: a word, or a
\* string with its length.  A word read into an int32_t is an integer; a
\* uint32_t that sums such words is kept as its two 16-bit halves, so that
\* the sum wraps where the code's sum wraps.

\* columns of a data set
MaxCols == 3

\* an integer as the halves [hi, lo] with lo in 0..65535; the integer is
\* hi * 65536 + lo
Halves(v) == [hi |-> v \div 65536, lo |-> v % 65536]

\* the sum of two integers kept as halves
Plus(a, b) ==
    [hi |-> a.hi + b.hi + (a.lo + b.lo) \div 65536, lo |-> (a.lo + b.lo) % 65536]

\* the conversion to uint32_t: modulo 2^32
uint32(a) == [a EXCEPT !.hi = @ % 65536]

\* data_set->n_buffer += data_set->col_headers[i].size
AddSize(n_buffer, size) == uint32(Plus(n_buffer, Halves(size)))

\* the loop over the columns that fills col_offsets and n_buffer, on
\* s = [n_buffer, col_offsets], from column i on
RECURSIVE ColOffsets(_, _, _)
ColOffsets(s, col_headers, i) ==
    IF i > Len(col_headers) THEN s
    ELSE ColOffsets([n_buffer |-> AddSize(s.n_buffer, col_headers[i].size),
                     col_offsets |-> Append(s.col_offsets, s.n_buffer)],
                    col_headers, i + 1)

\* the loop that reads the n column headers: name, type, size
RECURSIVE ReadColHeaders(_, _)
ReadColHeaders(r, n) ==
    IF n <= 0 \/ r.err # NoError THEN r
    ELSE LET nm == read_string16(r.fp)
             ts == ReadUnits(nm.fp, 2)
         IN  IF nm.err # NoError THEN [r EXCEPT !.fp = nm.fp, !.err = nm.err]
             ELSE IF ts.err # NoError THEN [r EXCEPT !.fp = ts.fp, !.err = ts.err]
             ELSE ReadColHeaders(
                     [r EXCEPT !.fp = ts.fp,
                               !.col_headers = Append(@, [name |-> nm.buffer,
                                                          type |-> ts.data[1],
                                                          size |-> ts.data[2]])],
                     n - 1)

\* hseek to the next data set
SeekNext_never(f, offset) == f
SeekNext(f, offset) == IF offset # 0 THEN hseek(f, offset) ELSE f

\* agcc_read_data_set: the outcomes [fp, err, data_set]
DataSetRead(f, fl) ==
    LET hd == ReadUnits(f, 2)
        nm == read_string16(hd.fp)
        np == ReadUnits(nm.fp, 1)
        Ended(x, msg) == [fp |-> x, err |-> msg, data_set |-> <<>>]
    IN  IF hd.err # NoError THEN {Ended(hd.fp, hd.err)}
        ELSE IF nm.err # NoError THEN {Ended(nm.fp, nm.err)}
        ELSE IF np.err # NoError THEN {Ended(np.fp, np.err)}
        ELSE UNION {
            IF p.err # NoError THEN {Ended(p.fp, p.err)}
            ELSE LET nc == ReadUnits(p.fp, 1)
                 IN  IF nc.err # NoError THEN {Ended(nc.fp, nc.err)}
                     ELSE LET ch == ReadColHeaders([fp |-> nc.fp, err |-> NoError,
                                                    col_headers |-> <<>>], nc.data[1])
                              nr == ReadUnits(ch.fp, 1)
                              co == ColOffsets([n_buffer |-> Halves(0), col_offsets |-> <<>>],
                                               ch.col_headers, 1)
                          IN  IF ch.err # NoError THEN {Ended(ch.fp, ch.err)}
                              ELSE IF nr.err # NoError THEN {Ended(nr.fp, nr.err)}
                              ELSE {[fp |-> SeekNext(nr.fp, hd.data[2]),
                                     err |-> NoError,
                                     data_set |-> <<[pos_first_element |-> hd.data[1],
                                                     pos_next_data_set |-> hd.data[2],
                                                     name |-> nm.buffer,
                                                     n_parameters |-> np.data[1],
                                                     parameters |-> p.parameters,
                                                     n_cols |-> nc.data[1],
                                                     col_headers |-> ch.col_headers,
                                                     n_rows |-> nr.data[1],
                                                     n_buffer |-> co.n_buffer,
                                                     col_offsets |-> co.col_offsets]>>]} :
            p \in ReadParameters({[fp |-> np.fp, err |-> NoError, parameters |-> <<>>]},
                                 np.data[1], fl)}

\* agcc_read_data_group up to its loop: the three words, the name, the seek
\* to the first data set
AgccGroupHeader ==
    /\ err = NoError
    /\ agcc.pc = "group"
    /\ Len(agcc.data_groups) < agcc.num_data_groups
    /\ \E hd \in {ReadUnits(fp, 3)} :
          IF hd.err # NoError
          THEN fp' = hd.fp /\ err' = hd.err /\ UNCHANGED agcc
          ELSE \E nm \in {read_string16(hd.fp)} :
               IF nm.err # NoError
               THEN fp' = nm.fp /\ err' = nm.err /\ UNCHANGED agcc
               ELSE /\ fp' = hseek(nm.fp, hd.data[2])
                    /\ agcc' = [agcc EXCEPT
                                  !.pc = "sets",
                                  !.data_groups = Append(@,
                                      [pos_next_data_group |-> hd.data[1],
                                       pos_first_data_set |-> hd.data[2],
                                       num_data_sets |-> hd.data[3],
                                       name |-> nm.buffer,
                                       data_sets |-> <<>>])]
                    /\ UNCHANGED err
    /\ UNCHANGED <<itrvars, procvars, mdlvars, xda_cel>>

\* the data group that is being decoded
ThisGroup == agcc.data_groups[Len(agcc.data_groups)]

\* one iteration of the loop of agcc_read_data_group over its data sets
AgccReadDataSet ==
    /\ err = NoError
    /\ agcc.pc = "sets"
    /\ Len(ThisGroup.data_sets) < ThisGroup.num_data_sets
    /\ \E r \in DataSetRead(fp, agcc.flags) :
          /\ fp' = r.fp
          /\ err' = r.err
          /\ agcc' = [agcc EXCEPT !.data_groups[Len(agcc.data_groups)].data_sets =
                                      @ \o r.data_set]
    /\ UNCHANGED <<itrvars, procvars, mdlvars, xda_cel>>

\* agcc_read_data_group after its loop: the seek to the next data group
AgccGroupEnd ==
    /\ err = NoError
    /\ agcc.pc = "sets"
    /\ Len(ThisGroup.data_sets) >= ThisGroup.num_data_sets
    /\ fp' = SeekNext(fp, ThisGroup.pos_next_data_group)
    /\ agcc' = [agcc EXCEPT !.pc = "group"]
    /\ UNCHANGED <<err, itrvars, procvars, mdlvars, xda_cel>>

\* the widths of the columns of the files
Widths == {1, 4, 2147483647, -1}

\* the units of the column headers of widths w
RECURSIVE ColUnits(_)
ColUnits(w) ==
    IF w = <<>> THEN <<>> ELSE <<<<"col">>, 0, Head(w)>> \o ColUnits(Tail(w))

\* the units of a data set at position p: the header with np parameters and
\* the columns of widths w, then rows rows; next tells whether the header
\* names the position of the next data set
DataSetUnits(p, np, w, rows, next) ==
    LET params == IF np = 0 THEN <<>> ELSE <<<<"y">>, <<"v">>, <<MimeTable[1]>>>>
        n == 5 + Len(params) + 3 * Len(w) + 1
    IN  <<p + n, IF next THEN p + n + rows ELSE 0, <<"set">>, np>> \o params
            \o <<Len(w)>> \o ColUnits(w) \o <<rows>> \o [k \in 1..rows |-> 0]

\* rows and next of a data set: rows that no header names the end of are
\* the last units of a file
RowsNext(last) ==
    {<<0, FALSE>>, <<0, TRUE>>, <<1, TRUE>>} \cup (IF last THEN {<<1, FALSE>>} ELSE {})

\* the data sets [k, units] of a group whose first data set is at p: none,
\* one, or two of which the second has no parameter
DataSetsUnits(p, last) ==
    {[k |-> 0, units |-> <<>>]}
        \cup {[k |-> 1, units |-> DataSetUnits(p, np, w, rn[1], rn[2])] :
                np \in 0..1, w \in SeqUpTo(Widths, MaxCols), rn \in RowsNext(last)}
        \cup {[k |-> 2, units |-> a \o DataSetUnits(p + Len(a), 0, w, rn[1], rn[2])] :
                a \in {DataSetUnits(p, 0, <<x>>, r1[1], r1[2]) :
                           x \in Widths, r1 \in RowsNext(FALSE)},
                w \in {<<>>, <<4>>}, rn \in RowsNext(last)}

\* the units of a group at p that declares n data sets
GroupUnits(p, sets, n, next) ==
    <<IF next THEN p + 4 + Len(sets) ELSE 0, p + 4, n, <<"group">>>> \o sets

\* a file of one data group, which may declare more or fewer data sets
\* than it has; or of two, the second without data sets, where the first
\* leads to the second
GroupFiles ==
    {[n |-> 1, cells |-> GroupUnits(0, s.units, n, next)] :
        s \in DataSetsUnits(4, TRUE), n \in 0..2, next \in BOOLEAN}
    \cup {[n |-> 2, cells |-> g.cells \o GroupUnits(Len(g.cells), <<>>, 0, FALSE)] :
            g \in {x \in {[cells |-> GroupUnits(0, s.units, n, next),
                           leads |-> n = s.k \/ (next /\ n < s.k)] :
                              s \in DataSetsUnits(4, FALSE),
                              n \in 0..2, next \in BOOLEAN} : x.leads}}

InitSet ==
    /\ \E c \in GroupFiles :
          /\ fp = [cells |-> c.cells, pos |-> 0]
          /\ \E fl \in 0..1 :
                agcc = [pc |-> "group", flags |-> fl, num_data_groups |-> c.n,
                        data_groups |-> <<>>]
    /\ xda_cel = NoXdaCel
    /\ err = NoError
    /\ NoIterator
    /\ NoProcess
    /\ WithoutModels

NextSet == AgccGroupHeader \/ AgccReadDataSet \/ AgccGroupEnd

SpecSet == InitSet /\ [][NextSet]_vars

\* the sum of the sizes of the columns 1..n, as an integer in halves
RECURSIVE SumOfWidths(_, _)
SumOfWidths(col_headers, n) ==
    IF n = 0 THEN Halves(0)
    ELSE Plus(SumOfWidths(col_headers, n - 1), Halves(col_headers[n].size))

\* the data sets decoded so far
DecodedSets ==
    UNION {{agcc.data_groups[g].data_sets[k] : k \in 1..Len(agcc.data_groups[g].data_sets)} :
             g \in 1..Len(agcc.data_groups)}

\* C22: in every decoded data set n_buffer is the sum of the sizes of its
\* columns and col_offsets[i] is the sum of the sizes of the columns before
\* column i
C22_RowWidthIsSumOfWidths ==
    \A ds \in DecodedSets :
        /\ Len(ds.col_offsets) = ds.n_cols
        /\ ds.n_buffer = SumOfWidths(ds.col_headers, ds.n_cols)
        /\ \A i \in 1..ds.n_cols :
              ds.col_offsets[i] = SumOfWidths(ds.col_headers, i - 1)

\* the units of the header of a decoded data set: four before its
\* parameters, three for each parameter, n_cols, three for each column,
\* n_rows
HeaderLen(ds) == 4 + 3 * Len(ds.parameters) + 1 + 3 * ds.n_cols + 1

\* a step of the loop over the data sets that decoded one
DataSetStep ==
    /\ agcc.pc = "sets"
    /\ err' = NoError
    /\ Len(agcc'.data_groups) = Len(agcc.data_groups)
    /\ Len(ThisGroup'.data_sets) = Len(ThisGroup.data_sets) + 1

\* the step that ends agcc_read_data_group
GroupEndStep == agcc.pc = "sets" /\ agcc'.pc = "group"

\* C23: the decode of a data set starts where the group header or the
\* data set before it left the position, and leaves the position at
\* pos_next_data_set if that is not zero and else just after n_rows, no
\* unit of the rows being read; the decode of a group leaves the position
\* at pos_next_data_group if that is not zero and else where its last
\* data set left it
C23_HeaderOnlyIsRead ==
    [][/\ DataSetStep =>
            LET ds == ThisGroup'.data_sets[Len(ThisGroup'.data_sets)]
                end == fp.pos + HeaderLen(ds)
            IN  /\ Len(ThisGroup.data_sets) = 0 => fp.pos = ThisGroup.pos_first_data_set
                /\ fp.cells[fp.pos + 1] = ds.pos_first_element
                /\ fp.cells[fp.pos + 2] = ds.pos_next_data_set
                /\ fp.cells[end] = ds.n_rows
                /\ fp'.pos = IF ds.pos_next_data_set # 0
                             THEN ds.pos_next_data_set ELSE end
       /\ GroupEndStep =>
            fp'.pos = IF ThisGroup.pos_next_data_group # 0
                      THEN ThisGroup.pos_next_data_group ELSE fp.pos]_vars

\* C23: a group of two data sets was decoded to its end; the first has a
\* row and names the position of the second, behind the row; the second
\* names no position, nor does the group
C23_Witness ==
    /\ err = NoError
    /\ agcc.pc = "group"
    /\ Len(agcc.data_groups) = 1
    /\ agcc.data_groups[1].pos_next_data_group = 0
    /\ Len(agcc.data_groups[1].data_sets) = 2
    /\ agcc.data_groups[1].data_sets[1].n_rows = 1
    /\ agcc.data_groups[1].data_sets[1].pos_next_data_set # 0
    /\ agcc.data_groups[1].data_sets[2].pos_next_data_set = 0
    /\ fp.pos = Len(fp.cells)

-----------------------------------------------------------------------------
\* The cluster models file as text: the lines of models_init
\*
\* A string is the sequence of its characters with the NUL that ends it,
\* and an offset counts the characters before it, as in the code.

\* descriptors of a line of the files, and fields of a descriptor
MaxDescriptors == 3
MaxFields == 7

TAB == "TAB"
Digits == <<"0", "1", "2", "3", "4", "5", "6", "7", "8", "9">>

\* s[i]
At(s, i) == s[i + 1]

\* strlen(&s[at])
RECURSIVE strlen(_, _)
strlen(s, at) == IF At(s, at) = NUL THEN 0 ELSE 1 + strlen(s, at + 1)

\* strtol(&s[at], NULL, 10) on a string without sign or blanks: the number
\* its leading digits write, 0 when it has none
RECURSIVE LeadingDigits(_, _, _)
LeadingDigits(s, at, acc) ==
    IF \E d \in 1..10 : Digits[d] = At(s, at)
    THEN LeadingDigits(s, at + 1,
                       10 * acc + (CHOOSE d \in 1..10 : Digits[d] = At(s, at)) - 1)
    ELSE acc
strtol(s, at) == LeadingDigits(s, at, 0)

\* strtof(&s[at], NULL) on such a string
strtof(s, at) == Float(strtol(s, at))

\* the loop of ksplit_core for a delimiter that is not 0, at character i of
\* the characters up to end; r = [s, off]
RECURSIVE KSplit(_, _, _, _, _, _)
KSplit(r, i, end, delimiter, last_char, last_start) ==
    IF i > end THEN r
    ELSE LET c == At(r.s, i)
         IN  IF c = delimiter \/ c = NUL
             THEN IF last_char # NUL /\ last_char # delimiter
                  THEN KSplit([s |-> [r.s EXCEPT ![i + 1] = NUL],
                               off |-> Append(r.off, last_start)],
                              i + 1, end, delimiter, NUL, last_start)
                  ELSE KSplit(r, i + 1, end, delimiter, c, last_start)
             ELSE KSplit(r, i + 1, end, delimiter, c,
                         IF last_char = delimiter \/ last_char = NUL
                         THEN i ELSE last_start)

\* ksplit_core(&s[at], delimiter, &m, &off): [s, off], the number of
\* fields being Len(off); the offsets are those of the code plus at
ksplit_core(s, at, delimiter) ==
    KSplit([s |-> s, off |-> <<>>], at, at + strlen(s, at), delimiter, NUL, at)

\* strdup(&s[at])
strdup(s, at) == SubSeq(s, at + 1, at + strlen(s, at))

\* cluster_t with all its fields
brlmmp_cluster_init(s, off) ==
    [xm |-> strtof(s, off[1]), xss |-> strtof(s, off[2]), k |-> strtof(s, off[3]),
     v |-> strtof(s, off[4]), ym |-> strtof(s, off[5]), yss |-> strtof(s, off[6]),
     xyss |-> strtof(s, off[7])]

birdseed_cluster_init_swapped(s, off) ==
    [xm |-> strtof(s, off[1]), ym |-> strtof(s, off[3]), xss |-> strtof(s, off[2]),
     xyss |-> strtof(s, off[4]), yss |-> strtof(s, off[5]), k |-> strtof(s, off[6]),
     v |-> strtof(s, off[6])]
birdseed_cluster_init(s, off) ==
    [xm |-> strtof(s, off[1]), ym |-> strtof(s, off[2]), xss |-> strtof(s, off[3]),
     xyss |-> strtof(s, off[4]), yss |-> strtof(s, off[5]), k |-> strtof(s, off[6]),
     v |-> strtof(s, off[6])]

\* the seven assignments of NAN
NanCluster ==
    [xm |-> NaN, xss |-> NaN, k |-> NaN, v |-> NaN, ym |-> NaN, yss |-> NaN, xyss |-> NaN]

\* sep1, sep2, sep3 and exp_cols of the two kinds of file
Sep1(is_birdseed) == IF is_birdseed THEN ";" ELSE TAB
Sep2(is_birdseed) == IF is_birdseed THEN " " ELSE ","
Sep3(is_birdseed) == IF is_birdseed THEN "-" ELSE ":"
ExpCols_seven(is_birdseed) == 7
ExpCols(is_birdseed) == IF is_birdseed THEN 6 ELSE 7

Missing == "Missing information for probeset in SNP posterior models file"

\* col_str[len - 2] == sep3 for the first column at offset at: the
\* character is one of the string, or for len < 2 at the start of str.s
\* one before the allocation, which any build may read as anything or
\* fault on
MarkerTest(s, at, len, sep3) ==
    IF at + len - 2 >= 0 THEN {[how |-> "read", is |-> At(s, at + len - 2) = sep3]}
    ELSE {[how |-> "read", is |-> FALSE], [how |-> "read", is |-> TRUE],
          [how |-> Fault, is |-> FALSE]}

\* one descriptor column: ksplit_core on col_str = &s[off1[j + 1]], the
\* test of ncols2, the cluster; [s, err, cluster].  An off1[j + 1] that
\* ksplit_core did not write is a read of an unwritten int
DescriptorRead(s, off1, j, is_birdseed) ==
    IF j + 1 > Len(off1)
    THEN {[s |-> s, err |-> e, cluster |-> NanCluster] : e \in {Fault, Missing}}
    ELSE LET sp == ksplit_core(s, off1[j + 1], Sep2(is_birdseed))
         IN  {IF Len(sp.off) < ExpCols(is_birdseed)
              THEN [s |-> sp.s, err |-> Missing, cluster |-> NanCluster]
              ELSE [s |-> sp.s, err |-> NoError,
                    cluster |-> IF is_birdseed THEN birdseed_cluster_init(sp.s, sp.off)
                                ELSE brlmmp_cluster_init(sp.s, sp.off)]}

\* the bucket of a copy number: idx + 1
BucketOf_diploid(copynumber) == 2
BucketOf(copynumber) == IF copynumber = 2 THEN 2 ELSE 1

\* the column of the third cluster that is decoded: col_str stays at
\* &str.s[off1[2]] when the AB cluster is not read
ThirdColumn_same(hap_birdseed) == 3
ThirdColumn(hap_birdseed) == IF hap_birdseed THEN 2 ELSE 3

\* one pass of the do ... while of models_init over the line str: the
\* outcomes [models, err]
LoadStr(m, str) ==
    LET sp1 == ksplit_core(str, 0, Sep1(m.is_birdseed))
        ncols1 == Len(sp1.off)
        Ended(x, msg) == [models |-> x, err |-> msg]
    IN  IF ncols1 = 0 THEN {Ended(m, Fault)}
        ELSE UNION {
          IF t.how = Fault THEN {Ended(m, Fault)}
          ELSE
            LET at == sp1.off[1]
                len == strlen(sp1.s, at)
                copynumber == IF t.is THEN strtol(sp1.s, at + len - 1) ELSE 2
                s0 == IF t.is /\ at + len - 2 >= 0
                      THEN [sp1.s EXCEPT ![at + len - 2 + 1] = NUL] ELSE sp1.s
                b == BucketOf(copynumber)
                probe_set_id == strdup(s0, at)
                keyed == [m EXCEPT !.probe_set_id[b] = khash_str2int_inc(@, probe_set_id)]
                hap_birdseed == m.is_birdseed /\ copynumber = 1
                need == 4 - (2 - copynumber) * (IF m.is_birdseed THEN 1 ELSE 0)
            IN  IF ncols1 < need THEN {Ended(keyed, Missing)}
                ELSE UNION {
                  IF c1.err # NoError THEN {Ended(keyed, c1.err)}
                  ELSE UNION {
                    IF c2.err # NoError THEN {Ended(keyed, c2.err)}
                    ELSE UNION {
                      IF c3.err # NoError THEN {Ended(keyed, c3.err)}
                      ELSE {Ended([keyed EXCEPT !.snps[b] = Append(@,
                                [probe_set_id |-> probe_set_id,
                                 copynumber |-> copynumber,
                                 aa |-> IF m.is_birdseed THEN c1.cluster ELSE c3.cluster,
                                 ab |-> c2.cluster,
                                 bb |-> IF m.is_birdseed THEN c3.cluster ELSE c1.cluster])],
                              NoError)} :
                      c3 \in DescriptorRead(c2.s, sp1.off, ThirdColumn(hap_birdseed),
                                            m.is_birdseed)} :
                    c2 \in IF hap_birdseed
                           THEN {[s |-> c1.s, err |-> NoError, cluster |-> NanCluster]}
                           ELSE DescriptorRead(c1.s, sp1.off, 2, m.is_birdseed)} :
                  c1 \in DescriptorRead(s0, sp1.off, 1, m.is_birdseed)} :
          t \in MarkerTest(sp1.s, sp1.off[1], strlen(sp1.s, sp1.off[1]),
                           Sep3(m.is_birdseed))}

\* the line id BB AB AA CV
BrlmmpHeader ==
    <<"i", "d", TAB, "B", "B", TAB, "A", "B", TAB, "A", "A", TAB, "C", "V", NUL>>

\* models_init up to its loop: unheader, then the kind of file from the
\* first line, which is the first str of the loop for a birdseed file
ModelsOpen ==
    /\ err = NoError
    /\ models_fn.pending
    /\ models_fn.at = 0
    /\ \E lines \in {models_fn.lines} :
          IF lines = <<>>
          THEN err' = "Empty file" /\ UNCHANGED <<models, models_fn>>
          ELSE IF lines[1] = BrlmmpHeader
          THEN IF Len(lines) < 2
               THEN /\ err' = "Missing information in SNP models file"
                    /\ UNCHANGED <<models, models_fn>>
               ELSE /\ models' = [NoModels EXCEPT !.loaded = TRUE]
                    /\ models_fn' = [models_fn EXCEPT !.at = 2]
                    /\ UNCHANGED err
          ELSE IF \A i \in 1..Len(lines[1]) : lines[1][i] # TAB
          THEN /\ models' = [NoModels EXCEPT !.loaded = TRUE, !.is_birdseed = TRUE]
               /\ models_fn' = [models_fn EXCEPT !.at = 1]
               /\ UNCHANGED err
          ELSE err' = "Malformed SNP model file" /\ UNCHANGED <<models, models_fn>>
    /\ UNCHANGED <<itrvars, procvars, agccvars, flags>>

\* one pass of the do ... while of models_init, with the hts_getline of
\* its test: no line is left after the last
ModelsLine ==
    /\ err = NoError
    /\ models_fn.pending
    /\ models_fn.at \in 1..Len(models_fn.lines)
    /\ \E r \in LoadStr(models, models_fn.lines[models_fn.at]) :
          /\ models' = r.models
          /\ err' = r.err
    /\ models_fn' = [models_fn EXCEPT !.at = @ + 1,
                                      !.pending = models_fn.at < Len(models_fn.lines)]
    /\ UNCHANGED <<itrvars, procvars, agccvars, flags>>

\* the identifiers of the first line of a file: without a marker, with the
\* markers of the copy numbers 1, 2 and 0, ending in the separator and a
\* letter, and of one character
IdTexts(sep3) ==
    {<<"A", "X">>, <<"A", "X", sep3, "1">>, <<"A", "X", sep3, "2">>,
     <<"A", "X", sep3, "0">>, <<"A", "X", sep3, "X">>, <<"A">>, <<"1">>}

\* descriptor j with nf fields: field i, counted from 0, is the number
\* 10 * j + i
RECURSIVE Descriptor(_, _, _)
Descriptor(j, nf, sep2) ==
    IF nf = 0 THEN <<>>
    ELSE Descriptor(j, nf - 1, sep2) \o (IF nf = 1 THEN <<>> ELSE <<sep2>>)
            \o <<Digits[j + 1], Digits[nf]>>

\* a line: the identifier and nd descriptors of nf fields
RECURSIVE Descriptors(_, _, _)
Descriptors(nd, nf, is_birdseed) ==
    IF nd = 0 THEN <<>>
    ELSE Descriptors(nd - 1, nf, is_birdseed) \o <<Sep1(is_birdseed)>>
            \o Descriptor(nd, nf, Sep2(is_birdseed))
LineText(id, nd, nf, is_birdseed) == id \o Descriptors(nd, nf, is_birdseed) \o <<NUL>>

\* the files: a first line of each kind, alone or before a second line of
\* another probe set, behind the header line for a tab-delimited file or
\* without it
TextFiles ==
    UNION {UNION {
        LET first == LineText(id, nd, nf, bs)
            second == LineText(<<"B", "Y", Sep3(bs), "1">>, 3, 7, bs)
        IN  {IF bs THEN l ELSE <<BrlmmpHeader>> \o l : l \in {<<first>>, <<first, second>>}}
                \cup (IF bs THEN {} ELSE {<<first>>}) :
        id \in IdTexts(Sep3(bs)), nd \in 1..MaxDescriptors, nf \in 5..MaxFields} :
      bs \in BOOLEAN}
    \cup {<<>>, <<BrlmmpHeader>>}

InitText ==
    /\ \E l \in TextFiles :
          models_fn = [pending |-> TRUE, format |-> "text", lines |-> l, at |-> 0]
    /\ models = NoModels
    /\ flags = {}
    /\ err = NoError
    /\ NoIterator
    /\ NoProcess
    /\ AgccDecoded

NextText == ModelsOpen \/ ModelsLine

SpecText == InitText /\ [][NextText]_vars

\* the line that a step of the loop reads, and the identifier it starts with
TheLine == models_fn.lines[models_fn.at]
RECURSIVE UpTo(_, _)
UpTo(s, c) == IF s = <<>> \/ Head(s) = c \/ Head(s) = NUL THEN <<>> ELSE <<Head(s)>> \o UpTo(Tail(s), c)
TheId == UpTo(TheLine, Sep1(models.is_birdseed))

\* a step of the loop that stored its line, in bucket b
LineStored(b) ==
    /\ models_fn.at >= 1
    /\ models_fn'.at = models_fn.at + 1
    /\ err' = NoError
    /\ Len(models'.snps[b]) = Len(models.snps[b]) + 1
Stored_snp(b) == models'.snps[b][Len(models'.snps[b])]

\* an identifier ends in the marker of a copy number: the separator and a
\* digit
HasMarker(id, sep3) ==
    /\ Len(id) >= 2
    /\ id[Len(id) - 1] = sep3
    /\ \E d \in 1..10 : Digits[d] = id[Len(id)]

\* C24: a line is stored in the first bucket, that of the haploid models,
\* exactly when its identifier ends in the marker of copy number 1, and in
\* the second exactly when it has no marker; the stored identifier is the
\* identifier without the marker
C24_BucketByMarker ==
    [][\A b \in 1..2 :
         LineStored(b) =>
            LET sep3 == Sep3(models.is_birdseed)
                marked == HasMarker(TheId, sep3)
            IN  /\ b = 1 <=> (marked /\ TheId[Len(TheId)] = "1")
                /\ b = 2 <=> ~marked
                /\ Stored_snp(b).probe_set_id =
                      IF marked THEN SubSeq(TheId, 1, Len(TheId) - 2) ELSE TheId]_vars


\* how often the character c is in the string s
RECURSIVE CountOf(_, _)
CountOf(s, c) ==
    IF s = <<>> THEN 0 ELSE (IF Head(s) = c THEN 1 ELSE 0) + CountOf(Tail(s), c)

\* the descriptors of the line that a step reads, and the fields of each
DescriptorsOf(line) == CountOf(line, Sep1(models.is_birdseed))
FieldsOf(line) == CountOf(line, Sep2(models.is_birdseed)) \div DescriptorsOf(line) + 1

\* the cluster c was decoded from descriptor j of the line: its xm is the
\* first number of the descriptor
FromDescriptor(c, j) == c.xm = Float(10 * j)

Decoded(j, p) == [f \in DOMAIN p |-> Float(10 * j + p[f])]

\* the descriptor of each cluster of a stored line
DescriptorOfCluster(snp, is_birdseed) ==
    IF ~is_birdseed THEN [bb |-> 1, ab |-> 2, aa |-> 3]
    ELSE IF snp.copynumber = 1 THEN [aa |-> 1, bb |-> 2]
    ELSE [aa |-> 1, ab |-> 2, bb |-> 3]

\* the clusters of a stored line are decoded with the slots p
DecodedWith(snp, is_birdseed, p) ==
    LET d == DescriptorOfCluster(snp, is_birdseed)
    IN  \A c \in DOMAIN d : snp[c] = Decoded(d[c], p)

TabSlots == [xm |-> 0, xss |-> 1, k |-> 2, v |-> 3, ym |-> 4, yss |-> 5, xyss |-> 6]

\* C26 as stated: a line is stored only if its descriptors have seven
\* fields, in both kinds of file; the slots 0..6 of a tab-delimited file
\* are xm, xss, k, v, ym, yss, xyss and those of the other kind xm, ym,
\* xss, xyss, yss, k, v
C26_SevenFieldsBothDialects ==
    [][\A b \in 1..2 :
         LineStored(b) =>
            /\ FieldsOf(TheLine) >= 7
            /\ DecodedWith(Stored_snp(b), models.is_birdseed,
                  IF models.is_birdseed
                  THEN [xm |-> 0, ym |-> 1, xss |-> 2, xyss |-> 3, yss |-> 4, k |-> 5, v |-> 6]
                  ELSE TabSlots)]_vars

\* C26: a line of a tab-delimited file is stored only if its descriptors
\* have seven fields, decoded as xm, xss, k, v, ym, yss, xyss; a line of
\* the other kind only if they have six, decoded as xm, ym, xss, xyss, yss
\* and, from the sixth, both k and v
C26_SixFieldsInSecondDialect ==
    [][\A b \in 1..2 :
         LineStored(b) =>
            /\ FieldsOf(TheLine) >= (IF models.is_birdseed THEN 6 ELSE 7)
            /\ DecodedWith(Stored_snp(b), models.is_birdseed,
                  IF models.is_birdseed
                  THEN [xm |-> 0, ym |-> 1, xss |-> 2, xyss |-> 3, yss |-> 4, k |-> 5, v |-> 5]
                  ELSE TabSlots)]_vars

\* C26: a file of the second kind is loaded whose first line has
\* descriptors of six fields; k and v of its first cluster are the sixth
C26_Witness ==
    /\ err = NoError
    /\ ~models_fn.pending
    /\ models.is_birdseed
    /\ FieldsOf(models_fn.lines[1]) = 6
    /\ Len(models.snps[2]) = 1
    /\ models.snps[2][1].aa.k = Float(15)
    /\ models.snps[2][1].aa.v = Float(15)

-----------------------------------------------------------------------------
\* The rows of the iterator that process leaves unread

\* rows that varitr_loop has not read: of the data sets of the containers,
\* and lines of the tables that are open
RowsLeft ==
    {i \in 1..Len(data_sets) : data_sets[i].read < data_sets[i].n_rows}
        \cup {t \in {"calls", "confidences", "summary"} :
                 txt[t].open /\ txt[t].pos < Len(txt[t].lines)}

\* C27: with an iterator, when the line of tallies is printed the iterator
\* has no row left, and each of its rows was written or counted as
\* skipped; also when it has more rows than the manifest has records
C27_EveryRowConsumed ==
    (have_varitr /\ proc.pc = "done" /\ printed # <<>>) =>
        /\ RowsLeft = {}
        /\ varitr.nrow = sink.n + proc.n_skipped

-----------------------------------------------------------------------------
\* process with --adjust-clusters, --models and --summary and no --calls:
\* the iterator reads the summary table alone

InitSum ==
    /\ models_fn \in ModelsFiles(ModelLines, MaxMdlLines)
    /\ models = NoModels
    /\ flags = {"SUMMARY_LOADED", "ADJUST_CLUSTERS"}
    /\ have_varitr = TRUE
    /\ varitr = [nsmpl |-> 1, nrow |-> 0, probe_set_id |-> <<>>, gts |-> Unwritten]
    /\ data_sets = <<>>
    /\ \E ids \in SeqUpTo(TableIds, MaxMdlRows) :
          txt = [calls |-> NoFile, confidences |-> NoFile, summary |-> Table(Pairs(ids, 1))]
    /\ annot = MdlManifest
    /\ itr_ret = RetNone
    /\ itr_at = 0
    /\ err = NoError
    /\ proc = ProcStart
    /\ sink = NoSink
    /\ printed = <<>>
    /\ AgccDecoded

NextSum == ModelsInit \/ ProcessMdl \/ ProcessEnd

SpecSum == InitSum /\ [][NextSum]_vars

\* C28: in an iteration that adjusts the clusters of a model, every gts[i]
\* that adjust_clusters reads was written by the varitr_loop of that
\* iteration, also in a run without a calls table
C28_AdjustmentReadsWrittenGts ==
    [][(ModelledStep /\ "ADJUST_CLUSTERS" \in flags /\ proc'.snp # <<>>) =>
          /\ txt.calls.open
          /\ DOMAIN varitr'.gts = 1..varitr'.nsmpl]_vars

-----------------------------------------------------------------------------
\* The look-ahead of varitr_loop on the summary table: char buf[17]

\* characters of an identifier before its -A or -B
MaxPrefix == 18

\* hpeek(fp, buf, len) on char buf[MAX_LENGTH_PROBE_SET_ID]: the bytes
\* that land in buf, and those written behind its last element
PeekInto(bytes) ==
    [buf |-> SubSeq(bytes, 1, IF Len(bytes) <= MAX_LENGTH_PROBE_SET_ID
                              THEN Len(bytes) ELSE MAX_LENGTH_PROBE_SET_ID),
     beyond |-> SubSeq(bytes, MAX_LENGTH_PROBE_SET_ID + 1, Len(bytes))]

\* one pass of the do ... while of varitr_loop over the summary table: the
\* outcomes; "again" starts the next pass.  A write behind buf is
\* undefined: the run goes on, or faults
ScanStep(v, t) ==
    IF AtEof(t.summary) THEN {Out(v, t, RetEnd, NoError)}
    ELSE LET line == NextLine(t.summary)
             t1 == [t EXCEPT !.summary = Advance(@)]
             len == Len(line.id)
             peek == PeekInto(hpeek(t1.summary, len))
             v1 == [v EXCEPT !.buf = peek.buf, !.beyond = peek.beyond]
             bytes == peek.buf \o peek.beyond
         IN  IF line.ncols # 1 + v.nsmpl
             THEN {Out(v, t1, RetError, "Expected columns in the summary file")}
             ELSE IF line.id[len - 1] # "-" \/ line.id[len] # "A"
             THEN {Out(v, t1, RetError, "Found Probe Set ID while a -A was expected")}
             ELSE IF len - 2 > MAX_LENGTH_PROBE_SET_ID
             THEN {Out(v, t1, RetError, "Cannot read Probe Set intensities")}
             ELSE {Out(v1, t1, IF NoCompanion(Chop2(line.id), bytes, len)
                               THEN "again" ELSE Go, NoError)}
                    \cup (IF peek.beyond # <<>>
                          THEN {Out(v1, t1, RetError, Fault)} ELSE {})

VaritrPeek ==
    /\ err = NoError
    /\ itr_ret \in {RetNone, "again"}
    /\ \E r \in ScanStep(varitr, txt) :
          /\ varitr' = r.varitr
          /\ txt' = r.txt
          /\ itr_ret' = r.how
          /\ err' = r.err
    /\ UNCHANGED <<data_sets, itr_at>>
    /\ UNCHANGED <<procvars, agccvars, mdlvars>>

\* an identifier of k characters before its suffix
RECURSIVE PrefixOf(_)
PrefixOf(k) == IF k = 0 THEN <<>> ELSE <<"x">> \o PrefixOf(k - 1)
LineA(k) == [id |-> PrefixOf(k) \o <<"-", "A">>, ncols |-> 2]
LineB(k) == [id |-> PrefixOf(k) \o <<"-", "B">>, ncols |-> 2]

\* summary tables of one sample: a -A line, followed by its companion, by
\* nothing, or by the pair of another probe set
PeekTables ==
    UNION {{<<LineA(k), LineB(k)>>, <<LineA(k)>>}
              \cup {<<LineA(k), LineA(j), LineB(j)>> : j \in 0..MaxPrefix} :
           k \in 0..MaxPrefix}

InitPeek ==
    /\ varitr = [nsmpl |-> 1, nrow |-> 0, probe_set_id |-> <<>>, gts |-> Unwritten,
                 buf |-> <<>>, beyond |-> <<>>]
    /\ \E l \in PeekTables :
          txt = [calls |-> NoFile, confidences |-> NoFile, summary |-> Table(l)]
    /\ data_sets = <<>>
    /\ itr_ret = RetNone
    /\ itr_at = 0
    /\ err = NoError
    /\ NoProcess
    /\ AgccDecoded
    /\ WithoutModels

NextPeek == VaritrPeek

SpecPeek == InitPeek /\ [][NextPeek]_vars

\* C29: the look-ahead writes no byte behind buf, whatever the length of
\* an identifier that passed the test of its length
C29_PeekFitsBuffer == varitr.beyond = <<>>

-----------------------------------------------------------------------------
\* The export of the chip summaries: agccs_to_tsv
\*
\* agcc holds the decoded headers of the containers, the counters i, j and
\* k of the three loops, and what was written to the stream.

\* containers of a run, and how far k is followed behind an empty array
MaxFiles == 2
MaxK == 3

\* the types FLOAT and STRING of a parameter
FLOAT == 6
STRING_ == 7

\* the first 23 characters of the names of the summary
ChipPrefix == "affymetrix-chipsummary-"

chipsummary ==
    <<"computed_gender", "call_rate", "total_call_rate", "het_rate", "total_het_rate",
      "hom_rate", "total_hom_rate", "cluster_distance_mean", "cluster_distance_stdev",
      "allele_summarization_mean", "allele_summarization_stdev", "allele_deviation_mean",
      "allele_deviation_stdev", "allele_mad_residuals_mean", "allele_mad_residuals_stdev",
      "cn-probe-chrXY-ratio_gender_meanX", "cn-probe-chrXY-ratio_gender_meanY",
      "cn-probe-chrXY-ratio_gender_ratio", "cn-probe-chrXY-ratio_gender", "pm_mean">>

\* data_header->parameters[k]: the entry, or for k outside the array what
\* lies behind it, a wild name and value and any type
ParameterAt(parameters, k) ==
    IF k < Len(parameters) THEN {parameters[k + 1]}
    ELSE {[name |-> Null, value |-> Null, n_value |-> 0, mime_type |-> Null, type |-> t] :
            t \in {FLOAT, STRING_, 0}}

\* the condition of the while: wcsncmp(name, prefix, 23) != 0 ||
\* wcscmp(&name[23], chipsummary[j]) != 0, with j from 0; for a NULL name
\* the call is undefined
NameDiffers(name, j) ==
    IF name = Null
    THEN {[how |-> Fault, differs |-> FALSE], [how |-> "value", differs |-> TRUE],
          [how |-> "value", differs |-> FALSE]}
    ELSE {[how |-> "value", differs |-> name[1] # <<ChipPrefix, chipsummary[j + 1]>>]}

\* k++; k %= data_header->n_parameters: the next k, or the end of the run
\* by the division by zero, or k + 1 left by it; behind an empty array k
\* is followed up to MaxK, where the read leaves the memory of the process
NextK(k, n_parameters) ==
    IF n_parameters = 0
    THEN {[how |-> "Floating point exception", k |-> k + 1],
          IF k < MaxK THEN [how |-> "value", k |-> k + 1] ELSE [how |-> Fault, k |-> k + 1]}
    ELSE {[how |-> "value", k |-> (k + 1) % n_parameters]}

\* the switch on the type of the parameter found: what is written, or the
\* error that ends the run
PrintParameter(p) ==
    IF p.type \in {FLOAT, STRING_}
    THEN IF p.value = Null THEN [err |-> Fault, text |-> <<>>]
         ELSE [err |-> NoError, text |-> <<[type |-> p.type, value |-> p.value[1]]>>]
    ELSE [err |-> "Unable to print parameter of type", text |-> <<>>]

TheHeader == agcc.containers[agcc.i + 1]

\* one pass of the while whose condition holds: the name at k is not the
\* one searched
TsvNext ==
    /\ err = NoError
    /\ agcc.pc = "tsv"
    /\ \E p \in ParameterAt(TheHeader, agcc.k) :
       \E d \in NameDiffers(p.name, agcc.j) :
          \/ /\ d.how = Fault
             /\ err' = Fault
             /\ agcc' = agcc
          \/ /\ d.how = "value" /\ d.differs
             /\ \E r \in NextK(agcc.k, Len(TheHeader)) :
                   /\ err' = IF r.how = "value" THEN NoError ELSE r.how
                   /\ agcc' = [agcc EXCEPT !.k = r.k]
    /\ UNCHANGED <<fp, xda_cel, itrvars, procvars, mdlvars>>

\* the end of the while: the parameter at k is printed, and the loops
\* over j and i go on
TsvFound ==
    /\ err = NoError
    /\ agcc.pc = "tsv"
    /\ \E p \in ParameterAt(TheHeader, agcc.k) :
       \E d \in NameDiffers(p.name, agcc.j) :
          /\ d.how = "value" /\ ~d.differs
          /\ \E w \in {PrintParameter(p)} :
                /\ err' = w.err
                /\ agcc' =
                     IF w.err # NoError THEN agcc
                     ELSE IF agcc.j + 1 < Len(chipsummary)
                     THEN [agcc EXCEPT !.j = @ + 1, !.stream = @ \o w.text]
                     ELSE [agcc EXCEPT !.i = @ + 1, !.j = 0, !.k = 0,
                                       !.stream = @ \o w.text,
                                       !.pc = IF agcc.i + 1 < agcc.n THEN "tsv" ELSE "done"]
    /\ UNCHANGED <<fp, xda_cel, itrvars, procvars, mdlvars>>

\* the parameters of decoded headers
ChipParameter(jn) ==
    LET t == IF jn \in {1, 19} THEN STRING_ ELSE FLOAT
    IN  [name |-> <<<<ChipPrefix, chipsummary[jn]>>>>, value |-> <<<<"v">>>>, n_value |-> 1,
         mime_type |-> <<<<MimeTable[t + 1]>>>>, type |-> t]
OtherParameter(t) ==
    [name |-> <<<<"x">>>>, value |-> <<<<"v">>>>, n_value |-> 1,
     mime_type |-> <<<<MimeTable[t + 1]>>>>, type |-> t]
AptParameter(fl) ==
    IF fl # 0
    THEN [name |-> Null, value |-> Null, n_value |-> 0, mime_type |-> Null, type |-> STRING_]
    ELSE [name |-> <<<<DropPrefix, "-x">>>>, value |-> <<<<"v">>>>, n_value |-> 1,
          mime_type |-> <<<<MimeTable[STRING_ + 1]>>>>, type |-> STRING_]
FullSummary == [jn \in 1..Len(chipsummary) |-> ChipParameter(jn)]
ReversedSummary == [jn \in 1..Len(chipsummary) |-> ChipParameter(Len(chipsummary) + 1 - jn)]
WithoutName(m) == SubSeq(FullSummary, 1, m - 1) \o SubSeq(FullSummary, m + 1, Len(chipsummary))
IntSummary == [FullSummary EXCEPT ![2].type = 4]

\* the parameter arrays of the headers decoded with flags fl
SummaryHeaders(fl) ==
    {FullSummary, ReversedSummary, IntSummary, <<>>,
     <<OtherParameter(STRING_), OtherParameter(FLOAT)>>,
     <<OtherParameter(FLOAT)>> \o FullSummary,
     <<AptParameter(fl)>> \o FullSummary, FullSummary \o <<AptParameter(fl)>>}
        \cup {WithoutName(m) : m \in {1, 10, Len(chipsummary)}}

\* run opens n files with flags nfiles > 1 and exports their headers
InitTsv ==
    /\ \E n \in 1..MaxFiles :
       \E c \in [1..n -> SummaryHeaders(IF n > 1 THEN 1 ELSE 0)] :
          agcc = [pc |-> "tsv", n |-> n, containers |-> c, i |-> 0, j |-> 0, k |-> 0,
                  stream |-> <<>>]
    /\ fp = NoStream
    /\ xda_cel = NoXdaCel
    /\ err = NoError
    /\ NoIterator
    /\ NoProcess
    /\ WithoutModels

NextTsv == TsvNext \/ TsvFound

\* the export runs on while it can
SpecTsv == InitTsv /\ [][NextTsv]_vars /\ WF_vars(NextTsv)

\* C30: the export over the containers ends, by its return or by the end
\* of the run, for every header: the circular search for each summary
\* name stops after finitely many passes
C30_ExportTerminates == <>(agcc.pc = "done" \/ err # NoError)

====
